---- MODULE Spec2Model ----
(***************************************************************************)
(* Research Orchestration Engine (src/main.py, src/modules, src/utils,     *)
(* src/api_server.py, src/chatbot_integration.py): the batch scheduler,    *)
(* the per-step quality loop, the Gemini key pool, the batch executor, the *)
(* scraped-URL guard, the checkpoint store, the end of the run, the source *)
(* cache, the URL workers, the scrape timeout, the search engine's keys,   *)
(* the two-step API, the chatbot's research system, the query and URL      *)
(* pools of one iteration, the GPT token manager, concurrent callers of    *)
(* the Gemini key pool and a run resumed from a checkpoint.                *)
(*                                                                         *)
(* One group of variables per component; each component has its own        *)
(* specification (SpecSched, SpecPool, SpecStep, SpecBatch, SpecUrls,      *)
(* SpecCkpt, SpecFin, SpecCache, SpecProc, SpecScrape, SpecSearch,         *)
(* SpecApi, SpecChat, SpecPar, SpecGpt, SpecExt, SpecRes) in which the     *)
(* other groups stay at their idle values.                                 *)
(***************************************************************************)
EXTENDS Integers, Sequences, FiniteSets, TLC

VARIABLES
    \* ---- _create_execution_batches (src/main.py:144-202)
    steps,              \* the input step list
    batches,            \* the returned list of batches
    sched_pc,           \* "off" | "plan" | "returned"
    \* ---- GeminiAPIManager (src/utils/api_manager.py)
    api_keys,           \* index (from 0) -> the key's "exhausted" flag
    current_index,
    pool_pc,            \* "off" | "idle" | "loop": where generate_content is
    retries,            \* generate_content's local counter
    call_result,        \* how the last generate_content call ended
    signals,            \* rate-limit signals received since the keys were fresh
    mark_raised,        \* did the last mark_current_exhausted raise
    request,            \* the last request sent: its key, and the key's mark then
    \* ---- _execute_step (src/main.py:282-401), one step's loop
    step_pc,            \* "off" | "enter" | "while" | "queries" | "evaluate"
                        \* | "final" | "done" | "raised"
    iteration,
    quality_met,
    last_evaluation,    \* the local; bound = FALSE while it is unassigned
    quality_scores,     \* metrics.metrics['quality_scores'][step_number]
    initial_queries,    \* step['search_queries']
    current_queries,
    all_queries_tried,
    own_facts,          \* facts this step's queries appended after step_facts_start
    sibling_facts,      \* facts other steps of the batch appended after it
    evaluated,          \* per recorded score: was the evaluation called for it
    runs,               \* times the search/fetch phase of the loop was run
    iteration_facts,    \* facts the step's queries appended in the last run
    passes,             \* per pass that reached line 355: what it found and did
    \* ---- execute_research's batch loop (src/main.py:96-108, 204-231)
    main_pc,            \* "off" | "loop" | "single" | "submit" | "wait"
                        \* | "sanity" | "returned" | "raised"
    batch_idx,          \* the batch the for loop is at (from 1)
    step_state,         \* pos -> "pending" | "submitted" | "running"
                        \*        | "returned" | "raised"
    handled,            \* steps whose future the as_completed loop has taken
    inner_workers,      \* pos -> query, URL and fetch workers of the step that are running
    completed_steps,    \* completed_steps of the checkpoint written last
    \* ---- the accumulators and the checkpoint file
    \*      (src/main.py:33,38,544-565, src/utils/checkpoint_manager.py)
    all_collected_facts,
    scraped_urls,
    ckpt_file,          \* [exists, content]: the JSON text as a token list
    last_saved,         \* the accumulators at the last save since a clear
    ckpt_op,            \* the last operation on the store
    savers,             \* step thread -> its place in _save_checkpoint
    \* ---- _execute_query / _process_url (src/main.py:403-503)
    sys_pc,             \* "off" | "construct" | "executing"
    resume,             \* the constructor's resume argument
    urls_lock,          \* 0, or the query worker holding self.urls_lock
    qw,                 \* query worker -> its place in _execute_query
    tasks,              \* query worker -> the _process_url calls it submitted
    skips,              \* metrics.record_scraping(skipped=True) calls
    fetched,            \* url -> times a fetch of it was started
    \* ---- execute_research after the batches (src/main.py:110-142)
    fin_pc,             \* the main thread's place after the batch loop
    judgments,          \* calls of check_global_sufficiency
    judgment,           \* what the last call returned, and whether it failed
    rescue_searches,    \* rescue searches issued
    rescue_requested,   \* num_results of the rescue search
    search_results,     \* the URLs the rescue search returned
    rescue_fetches,     \* scrape_with_timeout calls of the rescue loop
    report,             \* what execute_research returned
    \* ---- SourceCache (src/utils/source_cache.py)
    cache_index,        \* cache key -> {url, timestamp, size_bytes}
    cache_files,        \* cache key -> content of <key>.txt
    hits,               \* self.hits
    misses,             \* self.misses
    now,                \* datetime.now(), in hours
    cache_ret,          \* the last call: its arguments, what it found, its result
    \* ---- _process_url (src/main.py:452-503), the URL workers of one step
    pw,                 \* URL worker -> its place in _process_url and its locals
    step_sources,       \* the step's source list, passed to every worker
    facts_lock,         \* 0, or the URL worker holding self.facts_lock
    writes,             \* which worker wrote which shared structure, lock held or not
    \* ---- scrape_with_timeout (src/modules/scraper.py:140-161) and its caller
    sc_pc,              \* "off" | "idle" | "waiting" | "exit" | "returned" | "recorded"
    sc_pdf,             \* _is_pdf_url(url)
    sc_timeout,         \* the timeout future.result is called with, in seconds
    elapsed,            \* seconds since the call
    worker,             \* the _scrape_worker thread: running or done, and its value
    timed_out,          \* did future.result raise TimeoutError
    sc_result,          \* what scrape_with_timeout returned
    outcome,            \* what _process_url recorded for the URL
    \* ---- SearchEngine (src/modules/search.py), shared by the query workers
    google_keys,        \* key index (from 0) -> the key's "exhausted" flag
    current_google_key_index,\* self.current_google_key_index
    using_tavily,       \* self.using_tavily
    sw,                 \* query worker -> its place in search and its locals
    failed_keys,        \* keys with which a Google search was made and failed
    searches,           \* calls of search begun
    \* ---- the two-step API (src/api_server.py:219-281)
    api_pc,             \* "off" | "idle" | "planned" | "approved" | "executing" | "completed"
    offered_plan,       \* the plan POST /api/research/plan returned
    request_plan,       \* request.plan of POST /api/research/execute
    executed_plan,      \* research_plan inside execute_research
    planner_calls,      \* calls of planner()
    steps_run,          \* steps of executed_plan that were executed
    \* ---- the chatbot's research system (src/chatbot_integration.py:43, 197-208)
    chat_pc,            \* "off" | "idle" | "running"
    research_system,    \* "none" | "built": ChatBot.research_system
    run_start,          \* the accumulators at the start of the last execute_research call
    research_runs,      \* calls of execute_research
    \* ---- the query pool and the URL pools of one iteration (src/main.py:338-352, 403-452)
    par_pc,             \* "off" | "iteration" | "submitted" | "joined" | "raised"
    iter_queries,       \* the iteration's query list
    query_tasks,        \* place of the query -> the state of its _execute_query task
    \* ---- GPTManager (src/utils/gpt_manager.py)
    gpt_pc,             \* "off" | "idle" | "loop" | "returned" | "raised"
    tokens,             \* the number of GitHub tokens, numbered from 0
    current_token_index,\* index of the token of self.client
    gpt_max_retries,    \* the max_retries argument of the call
    tokens_tried,       \* tokens given up during the call
    gpt_retries,        \* the local counter retries
    attempts,           \* token -> requests made with it during the call
    \* ---- concurrent callers of the shared GeminiAPIManager (src/main.py:486-491, src/utils/api_manager.py:53-125)
    callers,            \* URL worker -> where its generate_content call is
    rate_limited,       \* the keys whose requests received a rate-limit signal
    \* ---- a run resumed from a checkpoint (src/main.py:571-612, 557-565, 69-108)
    res_pc,             \* "off" | "found" | "executing" | "finished" | "failed"
    resumed_from,       \* the checkpoint on disk when the run is resumed: its plan and current_step
    run_plan,           \* research_plan of the resumed run
    executed_steps      \* step numbers the resumed run has executed

sched_vars == <<steps, batches, sched_pc>>
pool_vars == <<api_keys, current_index, pool_pc, retries, call_result, signals,
               mark_raised,
              request>>

step_vars == <<step_pc, iteration, quality_met, last_evaluation, quality_scores,
               initial_queries, current_queries, all_queries_tried, own_facts,
               sibling_facts, evaluated, runs, iteration_facts, passes>>

batch_vars == <<main_pc, batch_idx, step_state, handled, inner_workers,
               completed_steps>>

ckpt_vars == <<all_collected_facts, scraped_urls, ckpt_file, last_saved, ckpt_op,
              savers>>

urls_vars == <<sys_pc, resume, urls_lock, qw, tasks, skips, fetched>>

fin_vars == <<fin_pc, judgments, judgment, rescue_searches, rescue_requested,
             search_results, rescue_fetches, report>>

cache_vars == <<cache_index, cache_files, hits, misses, now, cache_ret>>

proc_vars == <<pw, step_sources, facts_lock, writes>>

scrape_vars == <<sc_pc, sc_pdf, sc_timeout, elapsed, worker, timed_out, sc_result, outcome>>

search_vars == <<google_keys, current_google_key_index, using_tavily, sw, failed_keys, searches>>

api_vars == <<api_pc, offered_plan, request_plan, executed_plan, planner_calls, steps_run>>

chat_vars == <<chat_pc, research_system, run_start, research_runs>>

par_vars == <<par_pc, iter_queries, query_tasks>>

gpt_vars == <<gpt_pc, tokens, current_token_index, gpt_max_retries, tokens_tried, gpt_retries, attempts>>

ext_vars == <<callers, rate_limited>>

res_vars == <<res_pc, resumed_from, run_plan, executed_steps>>

vars == <<sched_vars, pool_vars, step_vars, batch_vars, ckpt_vars, urls_vars,
          fin_vars, cache_vars, proc_vars, scrape_vars, search_vars, api_vars, chat_vars, par_vars, gpt_vars, ext_vars, res_vars>>

\* what the actions of one component leave alone: the other components
sched_frame == <<res_vars, ext_vars, gpt_vars, par_vars, chat_vars, api_vars, search_vars, scrape_vars, proc_vars, pool_vars, step_vars, batch_vars, ckpt_vars, urls_vars, fin_vars, cache_vars>>
pool_frame == <<res_vars, ext_vars, gpt_vars, par_vars, chat_vars, api_vars, search_vars, scrape_vars, proc_vars, sched_vars, step_vars, batch_vars, ckpt_vars, urls_vars, fin_vars, cache_vars>>
step_frame == <<res_vars, ext_vars, gpt_vars, par_vars, chat_vars, api_vars, search_vars, scrape_vars, proc_vars, sched_vars, pool_vars, batch_vars, ckpt_vars, urls_vars, fin_vars, cache_vars>>
batch_frame == <<res_vars, ext_vars, gpt_vars, par_vars, chat_vars, api_vars, search_vars, scrape_vars, proc_vars, sched_vars, pool_vars, step_vars, ckpt_vars, urls_vars, fin_vars, cache_vars>>
ckpt_frame == <<res_vars, ext_vars, gpt_vars, par_vars, chat_vars, api_vars, search_vars, scrape_vars, proc_vars, sched_vars, pool_vars, step_vars, batch_vars, urls_vars, fin_vars, cache_vars>>
\* the URL workers write the accumulators of the checkpoint group
cache_frame == <<res_vars, ext_vars, gpt_vars, par_vars, chat_vars, api_vars, search_vars, scrape_vars, proc_vars, sched_vars, pool_vars, step_vars, batch_vars, ckpt_vars,
                 urls_vars, fin_vars>>
urls_frame == <<res_vars, ext_vars, gpt_vars, par_vars, chat_vars, api_vars, search_vars, scrape_vars, proc_vars, sched_vars, pool_vars, step_vars, batch_vars, ckpt_file,
                last_saved, ckpt_op, savers, fin_vars, cache_vars>>
\* the end of the run writes the fact list and the checkpoint file
fin_frame == <<res_vars, ext_vars, gpt_vars, par_vars, chat_vars, api_vars, search_vars, scrape_vars, proc_vars, sched_vars, pool_vars, step_vars, batch_vars, urls_vars,
               scraped_urls, ckpt_op, savers, cache_vars>>
\* the URL workers write the cache, its counters and the fact list
proc_frame == <<res_vars, ext_vars, gpt_vars, par_vars, chat_vars, api_vars, search_vars, scrape_vars, sched_vars, pool_vars, step_vars, batch_vars, urls_vars, fin_vars,
                scraped_urls, ckpt_file, last_saved, ckpt_op, savers, now,
                cache_ret>>
scrape_frame == <<res_vars, ext_vars, gpt_vars, par_vars, chat_vars, api_vars, search_vars, sched_vars, pool_vars, step_vars, batch_vars, ckpt_vars, urls_vars, fin_vars, cache_vars, proc_vars>>
search_frame == <<res_vars, ext_vars, gpt_vars, par_vars, chat_vars, api_vars, sched_vars, pool_vars, step_vars, batch_vars, ckpt_vars, urls_vars, fin_vars, cache_vars, proc_vars, scrape_vars>>
api_frame == <<res_vars, ext_vars, gpt_vars, par_vars, chat_vars, sched_vars, pool_vars, step_vars, batch_vars, ckpt_vars, urls_vars, fin_vars, cache_vars, proc_vars, scrape_vars, search_vars>>
\* a run of the chatbot writes the accumulators of the checkpoint group
chat_frame == <<res_vars, ext_vars, gpt_vars, par_vars, sched_vars, pool_vars, step_vars, batch_vars, ckpt_file, last_saved, ckpt_op,
               savers, urls_vars, fin_vars, cache_vars, proc_vars, scrape_vars, search_vars, api_vars>>
par_frame == <<res_vars, ext_vars, gpt_vars, sched_vars, pool_vars, step_vars, batch_vars, ckpt_vars, urls_vars, fin_vars, cache_vars, proc_vars, scrape_vars, search_vars, api_vars, chat_vars>>
gpt_frame == <<res_vars, ext_vars, sched_vars, pool_vars, step_vars, batch_vars, ckpt_vars, urls_vars, fin_vars, cache_vars, proc_vars, scrape_vars, search_vars, api_vars, chat_vars, par_vars>>
\* the callers write the key pool's flags and index
ext_frame == <<res_vars, sched_vars, pool_pc, retries, call_result, signals, mark_raised,
              request, step_vars, batch_vars, ckpt_vars, urls_vars, fin_vars, cache_vars, proc_vars, scrape_vars, search_vars, api_vars, chat_vars, par_vars, gpt_vars>>
res_frame == <<sched_vars, pool_vars, step_vars, batch_vars, ckpt_vars, urls_vars, fin_vars, cache_vars, proc_vars, scrape_vars, search_vars, api_vars, chat_vars, par_vars, gpt_vars, ext_vars>>

(***************************************************************************)
(* Bounds of the model.                                                    *)
(***************************************************************************)
MaxSteps == 3
MaxKeys == 4
MaxFacts == 2
NumWorkers == 2
MaxResults == 2
MaxNow == 36
MaxCalls == 3
MaxSeconds == 62

\* the threads of one pool: main.py:213 (the steps of a parallel batch),
\* main.py:339 (the queries of an iteration)
Workers == 1..NumWorkers

(***************************************************************************)
(* Small helpers.                                                          *)
(***************************************************************************)
Range(s) == {s[i] : i \in 1..Len(s)}

RECURSIVE Flatten(_)
Flatten(ss) == IF ss = <<>> THEN <<>> ELSE Head(ss) \o Flatten(Tail(ss))

SeqsUpTo(S, n) == UNION {[1..k -> S] : k \in 0..n}

(***************************************************************************)
(* The dependency-aware batch scheduler.                                   *)
(*                                                                         *)
(* A step is the dict of the plan: step_number, action, reasoning.  pos is *)
(* the identity of the dict object (its place in the input list), so that  *)
(* two steps with equal fields stay two steps.  action and reasoning are   *)
(* drawn from short texts; a text either contains a dependency keyword as  *)
(* a substring or does not.                                                *)
(***************************************************************************)
dependency_keywords ==
    {"based on", "using", "compare", "synthesize", "combine",
     "previous", "earlier", "above", "from step", "after"}

\* The texts of the model, each with the keywords it contains as substrings.
ActionTexts == {"find official docs", "based on steps 1 and 2"}
ReasoningTexts == {"", "builds on previous steps"}

KeywordsIn(text) ==
    CASE text = "based on steps 1 and 2" -> {"based on"}
      [] text = "builds on previous steps" -> {"previous"}
      [] OTHER -> {}

\* main.py:172,179  any(keyword in step_text for keyword in dependency_keywords)
\* on step_text = action + " " + reasoning
HasKeyword(step) ==
    \E keyword \in dependency_keywords :
        keyword \in (KeywordsIn(step.action) \cup KeywordsIn(step.reasoning))

\* main.py:175-184  has_dependency of one step, n = len(steps)
IsLastNever(step, n) == FALSE

\* main.py:183  step['step_number'] == len(steps)
IsLastByNumber(step, n) == step.step_number = n

HasDependency(step, n) == HasKeyword(step) \/ IsLastByNumber(step, n)

PlaceOnlyIndependent(step, cur, n) == ~HasDependency(step, n)

PlaceAfterFirst(step, cur, n) == ~HasDependency(step, n) /\ cur # <<>>

\* main.py:186-191  one pass of the for loop over remaining_steps, from
\* index i, with current_batch cur and next_remaining nxt.
PlaceHere(step, cur, n) == ~(HasDependency(step, n) /\ cur # <<>>)

RECURSIVE ForLoop(_, _, _, _, _)
ForLoop(rem, i, cur, nxt, n) ==
    IF i > Len(rem) THEN [current_batch |-> cur, next_remaining |-> nxt]
    ELSE IF PlaceHere(rem[i], cur, n)
         THEN ForLoop(rem, i + 1, Append(cur, rem[i]), nxt, n)
         ELSE ForLoop(rem, i + 1, cur, Append(nxt, rem[i]), n)

\* main.py:167-200  the while loop; rounds counts its iterations and
\* fallback records whether the no-progress branch (196-200) was taken.
RECURSIVE WhileLoop(_, _, _, _)
WhileLoop(rem, bs, n, rounds) ==
    IF rem = <<>> THEN [batches |-> bs, rounds |-> rounds, fallback |-> FALSE]
    ELSE LET r == ForLoop(rem, 1, <<>>, <<>>, n) IN
         IF r.current_batch # <<>>
         THEN WhileLoop(r.next_remaining, Append(bs, r.current_batch), n, rounds + 1)
         ELSE [batches  |-> bs \o [i \in 1..Len(rem) |-> <<rem[i]>>],
               rounds   |-> rounds + 1,
               fallback |-> TRUE]

create_execution_batches_one_round(ss) ==
    [batches  |-> <<ForLoop(ss, 1, <<>>, <<>>, Len(ss)).current_batch>>,
     rounds   |-> 1,
     fallback |-> FALSE]

\* main.py:144-202
create_execution_batches(ss) == WhileLoop(ss, <<>>, Len(ss), 0)

\* The step lists the scheduler is given: the planner's JSON or the plan of
\* an API request, whose step_number values nothing normalises.
StepNumbers == 1..(MaxSteps + 1)

StepDicts(numbers, actions, reasonings, queries) ==
    [step_number : numbers, action : actions, reasoning : reasonings,
     search_queries : queries]

\* the dict appended at place i of a list
StepAt(i, d) ==
    [pos |-> i, step_number |-> d.step_number, action |-> d.action,
     reasoning |-> d.reasoning, search_queries |-> d.search_queries]

\* step_number = place in the list, as the planner's prompt asks for
Canonical(ss) == \A i \in 1..Len(ss) : ss[i].step_number = i

SchedIdle == steps = <<>> /\ batches = <<>> /\ sched_pc = "off"

SchedInit == steps = <<>> /\ batches = <<>> /\ sched_pc = "plan"

\* the plan's step list grows by one step (the planner's output, read in order)
PlanStep ==
    /\ sched_pc = "plan"
    /\ Len(steps) < MaxSteps
    /\ \E d \in StepDicts(StepNumbers, ActionTexts, ReasoningTexts, {<<"q1">>}) :
           steps' = Append(steps, StepAt(Len(steps) + 1, d))
    /\ UNCHANGED <<batches, sched_pc>>
    /\ UNCHANGED sched_frame

\* main.py:86  execution_batches = self._create_execution_batches(steps)
CreateBatches ==
    /\ sched_pc = "plan"
    /\ batches' = create_execution_batches(steps).batches
    /\ sched_pc' = "returned"
    /\ UNCHANGED steps
    /\ UNCHANGED sched_frame

SchedNext == PlanStep \/ CreateBatches


(***************************************************************************)
(* The Gemini key pool.  Keys are numbered from 0 as in the list api_keys. *)
(***************************************************************************)
max_retries == 3

NumKeys == Cardinality(DOMAIN api_keys)

NextIndexStuck(i, n) == i

\* api_manager.py:40  (self.current_index + 1) % len(self.api_keys)
NextIndex(i, n) == (i + 1) % n

\* api_manager.py:39-51  the rotation loop, entered with the current key
\* already marked; cur is current_index, initial is initial_index.
RECURSIVE RotateLoop(_, _, _)
RotateLoop(keys, cur, initial) ==
    LET n == Cardinality(DOMAIN keys)
        nxt == NextIndex(cur, n)
    IN  IF nxt = initial
        THEN [api_keys |-> keys, current_index |-> nxt, raised |-> keys[nxt]]
        ELSE IF ~keys[nxt]
             THEN [api_keys |-> keys, current_index |-> nxt, raised |-> FALSE]
             ELSE RotateLoop(keys, nxt, initial)

\* api_manager.py:32-51
mark_current_exhausted(keys, idx) ==
    RotateLoop([keys EXCEPT ![idx] = TRUE], idx, idx)

NoRequest == [made |-> FALSE, index |-> 0, exhausted |-> FALSE]

\* api_manager.py:73-83  the request is sent with get_current_key()
RequestSent == [made |-> TRUE, index |-> current_index,
                exhausted |-> api_keys[current_index]]

PoolIdle ==
    /\ request = NoRequest
    /\ api_keys = <<>>
    /\ current_index = 0
    /\ pool_pc = "off"
    /\ retries = 0
    /\ call_result = "none"
    /\ signals = 0
    /\ mark_raised = FALSE

\* api_manager.py:21-26  __init__, for every non-empty GEMINI_API_KEYS
PoolInit ==
    /\ request = NoRequest
    /\ \E n \in 1..MaxKeys : api_keys = [i \in 0..(n - 1) |-> FALSE]
    /\ current_index = 0
    /\ pool_pc = "idle"
    /\ retries = 0
    /\ call_result = "none"
    /\ signals = 0
    /\ mark_raised = FALSE

\* api_manager.py:68  a caller enters generate_content
GenerateBegin ==
    /\ pool_pc = "idle"
    /\ pool_pc' = "loop"
    /\ retries' = 0
    /\ call_result' = "none"
    /\ UNCHANGED request
    /\ UNCHANGED <<api_keys, current_index, signals, mark_raised>>
    /\ UNCHANGED pool_frame

\* api_manager.py:70-94  the request made with the current key succeeds
GenerateOk ==
    /\ pool_pc = "loop"
    /\ retries < max_retries
    /\ pool_pc' = "idle"
    /\ call_result' = "ok"
    /\ request' = RequestSent
    /\ UNCHANGED <<api_keys, current_index, retries, signals, mark_raised>>
    /\ UNCHANGED pool_frame

\* api_manager.py:96-120  the request receives a rate-limit signal
GenerateRateLimited ==
    /\ UNCHANGED pool_frame
    /\ pool_pc = "loop"
    /\ retries < max_retries
    /\ signals <= MaxKeys
    /\ LET m == mark_current_exhausted(api_keys, current_index) IN
        /\ api_keys' = m.api_keys
        /\ current_index' = m.current_index
        /\ mark_raised' = m.raised
        /\ signals' = signals + 1
        /\ request' = RequestSent
        /\ IF m.raised
           THEN /\ pool_pc' = "idle"
                /\ call_result' = "all_exhausted"
                /\ UNCHANGED retries
           ELSE /\ retries' = retries + 1
                /\ UNCHANGED <<pool_pc, call_result>>

\* api_manager.py:121-123  any other error is re-raised
GenerateOtherError ==
    /\ pool_pc = "loop"
    /\ retries < max_retries
    /\ pool_pc' = "idle"
    /\ call_result' = "error"
    /\ request' = RequestSent
    /\ UNCHANGED <<api_keys, current_index, retries, signals, mark_raised>>
    /\ UNCHANGED pool_frame

\* api_manager.py:70,125  the loop ends after max_retries rotations
GenerateGiveUp ==
    /\ pool_pc = "loop"
    /\ retries >= max_retries
    /\ pool_pc' = "idle"
    /\ call_result' = "max_retries"
    /\ UNCHANGED request
    /\ UNCHANGED <<api_keys, current_index, retries, signals, mark_raised>>
    /\ UNCHANGED pool_frame

\* api_manager.py:127-132
ResetKeys ==
    /\ pool_pc = "idle"
    /\ \E i \in DOMAIN api_keys : api_keys[i]
    /\ api_keys' = [i \in DOMAIN api_keys |-> FALSE]
    /\ current_index' = 0
    /\ signals' = 0
    /\ mark_raised' = FALSE
    /\ UNCHANGED request
    /\ UNCHANGED <<pool_pc, retries, call_result>>
    /\ UNCHANGED pool_frame

PoolNext ==
    \/ GenerateBegin
    \/ GenerateOk
    \/ GenerateRateLimited
    \/ GenerateOtherError
    \/ GenerateGiveUp
    \/ ResetKeys

(***************************************************************************)
(* The quality-convergence loop of one step.  Scores are in hundredths     *)
(* (0.05 is 5, 0.5 is 50).  What the external capabilities return (search  *)
(* and extraction, evaluation, query refinement) is chosen by the          *)
(* environment.                                                            *)
(***************************************************************************)
max_iterations_per_step == 3
max_queries_per_step == 5
diminishing_returns == 5
default_score == 50

Scores == {0, 50, 53, 60, 90}

\* quality_evaluator.py:116-119, 165-168  the four dimension scores
DimensionNames == {"completeness", "technical_depth", "source_quality", "recency"}

Dimensions(score) == [d \in DimensionNames |-> score]

\* an evaluation without dimension keys
NoDimensions == [d \in {} |-> 0]

Unbound ==
    [bound |-> FALSE, overall_score |-> 0, threshold_met |-> FALSE,
     missing_aspects |-> <<>>, dimensions |-> NoDimensions]

ZeroFactsUnassigned ==
    [bound |-> FALSE, overall_score |-> 0, threshold_met |-> FALSE,
     missing_aspects |-> <<>>, dimensions |-> NoDimensions]

\* main.py:359-363  the evaluation assigned when the step has no facts
ZeroFactsEvaluation ==
    [bound |-> TRUE, overall_score |-> 0, threshold_met |-> FALSE,
     missing_aspects |-> <<"No data collected">>, dimensions |-> NoDimensions]

\* quality_evaluator.py:161-173  the default returned when the call fails
DefaultEvaluationMet ==
    [bound |-> TRUE, overall_score |-> default_score, threshold_met |-> TRUE,
     missing_aspects |-> <<>>, dimensions |-> Dimensions(default_score)]

DefaultEvaluation ==
    [bound |-> TRUE, overall_score |-> default_score, threshold_met |-> FALSE,
     missing_aspects |-> <<"Evaluation failed - assuming incomplete">>,
     dimensions |-> Dimensions(default_score)]

\* quality_evaluator.py:141-159  an answer that passed the try block: it
\* has the four dimensions, overall_score and threshold_met
Answers ==
    [bound : {TRUE}, overall_score : Scores, threshold_met : BOOLEAN,
     missing_aspects : {<<>>, <<"code examples">>},
     dimensions : {Dimensions(90)}]

\* quality_evaluator.py:130-173  what evaluate_research_quality can return:
\* the parsed answer of the model, or the default
evaluate_research_quality == Answers \cup {DefaultEvaluation}

\* quality_evaluator.py:130-141  how the call of the evaluation capability
\* ends: generate_content raises, its text is not the JSON asked for
\* (json.loads or a missing key raises), or it is an answer
EvaluationResponses ==
    {[kind |-> "raises", answer |-> Unbound],
     [kind |-> "unparsable", answer |-> Unbound]}
    \cup [kind : {"answer"}, answer : Answers]

\* quality_evaluator.py:130-173  the try block returns the answer, the
\* except block the default
evaluation_of(response) ==
    IF response.kind = "answer" THEN response.answer ELSE DefaultEvaluation

\* main.py:355  step_facts = self.all_collected_facts[step_facts_start:]
step_facts(own, sibling) == own + sibling

no_step_facts_never(facts) == FALSE

\* main.py:357  if not step_facts
no_step_facts(facts) == facts = 0

FallbackQuery == "action detailed implementation guide"

\* quality_evaluator.py:239-262  what identify_knowledge_gaps can return:
\* the model's list (nothing keeps it from repeating a query) or the fallback
identify_knowledge_gaps ==
    {<<>>, <<"q1">>, <<"r1", "r2">>, <<FallbackQuery>>}

\* step['search_queries'] of the plan
SearchQueryLists == {<<>>, <<"q1">>, <<"q1", "q2", "q3", "q4", "q5", "q6">>}

\* current_queries[:self.max_queries_per_step]
Capped(qs) == SubSeq(qs, 1, IF Len(qs) < max_queries_per_step
                             THEN Len(qs) ELSE max_queries_per_step)

\* metrics.record_iteration(step_number, score)
record_iteration(scores, score) == Append(scores, score)

WhileCondUnbounded(it, met) == ~met

\* main.py:306  while iteration < self.max_iterations_per_step and not quality_met
WhileCond(it, met) == it < max_iterations_per_step /\ ~met

DiminishingNever(scores) == FALSE

\* main.py:386-389  improvement = quality_score - previous_score < 0.05,
\* previous_score being the score recorded before the last one
Diminishing(scores) ==
    scores[Len(scores)] - scores[Len(scores) - 1] < diminishing_returns

StepIdle ==
    /\ step_pc = "off"
    /\ iteration = 0
    /\ quality_met = FALSE
    /\ last_evaluation = Unbound
    /\ quality_scores = <<>>
    /\ initial_queries = <<>>
    /\ current_queries = <<>>
    /\ all_queries_tried = <<>>
    /\ own_facts = 0
    /\ sibling_facts = 0
    /\ evaluated = <<>>
    /\ runs = 0
    /\ iteration_facts = 0
    /\ passes = <<>>

\* the state in which _execute_step is called for a step of the plan
StepInit ==
    /\ step_pc = "enter"
    /\ iteration = 0
    /\ quality_met = FALSE
    /\ last_evaluation = Unbound
    /\ quality_scores = <<>>
    /\ initial_queries \in SearchQueryLists
    /\ current_queries = <<>>
    /\ all_queries_tried = <<>>
    /\ own_facts = 0
    /\ sibling_facts = 0
    /\ evaluated = <<>>
    /\ runs = 0
    /\ iteration_facts = 0
    /\ passes = <<>>

\* main.py:291-304
StepEnter ==
    /\ step_pc = "enter"
    /\ step_pc' = "while"
    /\ UNCHANGED <<iteration, quality_met, last_evaluation, quality_scores,
                   initial_queries, current_queries, all_queries_tried,
                   own_facts, sibling_facts, evaluated, runs, iteration_facts,
                   passes>>
    /\ UNCHANGED step_frame

\* main.py:306-333  the loop test and the choice of this iteration's queries
LoopHead ==
    /\ step_pc = "while"
    /\ IF ~WhileCond(iteration, quality_met)
       THEN /\ step_pc' = "final"
            /\ UNCHANGED <<iteration, current_queries>>
       ELSE /\ iteration' = iteration + 1
            /\ IF iteration' = 1
               THEN /\ current_queries' = initial_queries
                    /\ step_pc' = "queries"
               ELSE IF last_evaluation.missing_aspects = <<>>
                    THEN /\ step_pc' = "final"
                         /\ UNCHANGED current_queries
                    ELSE \E refined_queries \in identify_knowledge_gaps :
                            IF refined_queries = <<>>
                            THEN /\ step_pc' = "final"
                                 /\ UNCHANGED current_queries
                            ELSE /\ current_queries' = refined_queries
                                 /\ step_pc' = "queries"
    /\ UNCHANGED <<quality_met, last_evaluation, quality_scores, initial_queries,
                   all_queries_tried, own_facts, sibling_facts, evaluated, runs,
                   iteration_facts, passes>>
    /\ UNCHANGED step_frame

\* main.py:335-352  the capped queries run in their pool; the pool cannot be
\* built for zero queries (ThreadPoolExecutor(max_workers=0) raises
\* ValueError), which ends _execute_step with that exception
RunQueries ==
    /\ step_pc = "queries"
    /\ IF Capped(current_queries) = <<>>
       THEN /\ step_pc' = "raised"
            /\ UNCHANGED <<all_queries_tried, own_facts, runs, iteration_facts>>
       ELSE /\ all_queries_tried' = all_queries_tried \o Capped(current_queries)
            /\ \E n \in 0..(MaxFacts - own_facts - sibling_facts) :
                   /\ own_facts' = own_facts + n
                   /\ iteration_facts' = n
            /\ runs' = runs + 1
            /\ step_pc' = "evaluate"
    /\ UNCHANGED <<iteration, quality_met, last_evaluation, quality_scores,
                   initial_queries, current_queries, sibling_facts, evaluated,
                   passes>>
    /\ UNCHANGED step_frame

\* what a pass of the loop found at main.py:355-372: the facts its own
\* queries appended in this iteration, the facts of step_facts by origin,
\* and how the evaluation call ended ("none": it was not called)
ThisPass(response) ==
    [iteration |-> iteration, collected |-> iteration_facts, own |-> own_facts,
     sibling |-> sibling_facts, response |-> response]

\* main.py:354-392  step_facts = all_collected_facts[step_facts_start:]
Evaluate ==
    /\ step_pc = "evaluate"
    /\ IF no_step_facts(step_facts(own_facts, sibling_facts))
       THEN /\ last_evaluation' = ZeroFactsEvaluation
            /\ quality_scores' = record_iteration(quality_scores, 0)
            /\ evaluated' = Append(evaluated, FALSE)
            /\ passes' = Append(passes, ThisPass("none"))
            /\ step_pc' = "while"
            /\ UNCHANGED quality_met
       ELSE \E response \in EvaluationResponses :
            LET e == evaluation_of(response) IN
            /\ last_evaluation' = e
            /\ passes' = Append(passes, ThisPass(response.kind))
            /\ quality_scores' = record_iteration(quality_scores, e.overall_score)
            /\ evaluated' = Append(evaluated, TRUE)
            /\ IF e.threshold_met
               THEN quality_met' = TRUE /\ step_pc' = "final"
               ELSE /\ UNCHANGED quality_met
                    /\ IF iteration > 1 /\ Diminishing(quality_scores')
                       THEN step_pc' = "final"
                       ELSE step_pc' = "while"
    /\ UNCHANGED <<iteration, initial_queries, current_queries, all_queries_tried,
                   own_facts, sibling_facts, runs, iteration_facts>>
    /\ UNCHANGED step_frame

\* main.py:394-401  final status and the checkpoint of the step
FinalStatus ==
    /\ step_pc = "final"
    /\ step_pc' = "done"
    /\ UNCHANGED <<iteration, quality_met, last_evaluation, quality_scores,
                   initial_queries, current_queries, all_queries_tried,
                   own_facts, sibling_facts, evaluated, runs, iteration_facts,
                   passes>>
    /\ UNCHANGED step_frame

\* main.py:498-500  another step of the same batch appends a fact to the
\* shared list while this step runs
SiblingAppends ==
    /\ step_pc \in {"while", "queries", "evaluate", "final"}
    /\ own_facts + sibling_facts < MaxFacts
    /\ sibling_facts' = sibling_facts + 1
    /\ UNCHANGED <<step_pc, iteration, quality_met, last_evaluation,
                   quality_scores, initial_queries, current_queries,
                   all_queries_tried, own_facts, evaluated, runs,
                   iteration_facts, passes>>
    /\ UNCHANGED step_frame

StepNext ==
    \/ StepEnter
    \/ LoopHead
    \/ RunQueries
    \/ Evaluate
    \/ FinalStatus
    \/ SiblingAppends

(***************************************************************************)
(* execute_research's batch loop.  The plan is numbered 1..N as the        *)
(* planner's prompt asks; CreateBatches computes its batches.  A step is   *)
(* either called directly (a batch of one) or submitted to the batch's     *)
(* ThreadPoolExecutor.  What a step does inside is the step loop above;    *)
(* here it starts and then returns or raises.                              *)
(***************************************************************************)
Positions == 1..Len(steps)

CurrentBatch == batches[batch_idx]

PosOf(batch) == {batch[j].pos : j \in 1..Len(batch)}

\* the batch a step was put in
BatchOf(p) == CHOOSE b \in 1..Len(batches) : p \in PosOf(batches[b])

Finished(p) == step_state[p] \in {"returned", "raised"}

BatchIdle ==
    /\ main_pc = "off"
    /\ batch_idx = 0
    /\ step_state = <<>>
    /\ handled = {}
    /\ inner_workers = <<>>
    /\ completed_steps = <<>>

BatchInit ==
    /\ main_pc = "loop"
    /\ batch_idx = 1
    /\ step_state = <<>>
    /\ handled = {}
    /\ inner_workers = <<>>
    /\ completed_steps = <<>>

\* main.py:71  the plan of the run grows by one step, numbered by its place
RunPlanStep ==
    /\ sched_pc = "plan"
    /\ Len(steps) < MaxSteps
    /\ \E d \in StepDicts({Len(steps) + 1}, ActionTexts, {""}, {<<>>, <<"q1">>}) :
           steps' = Append(steps, StepAt(Len(steps) + 1, d))
    /\ step_state' = [p \in 1..(Len(steps) + 1) |-> "pending"]
    /\ inner_workers' = [p \in 1..(Len(steps) + 1) |-> 0]
    /\ UNCHANGED <<batches, sched_pc, main_pc, batch_idx, handled, completed_steps>>
    /\ UNCHANGED <<pool_vars, step_vars, ckpt_vars, urls_vars, fin_vars,
                   cache_vars, proc_vars, res_vars, ext_vars, gpt_vars, par_vars, chat_vars, api_vars, search_vars, scrape_vars>>

\* main.py:97-108  the head of the for loop over execution_batches
BatchLoop ==
    /\ sched_pc = "returned"
    /\ main_pc = "loop"
    /\ IF batch_idx > Len(batches)
       THEN /\ main_pc' = "sanity"
            /\ UNCHANGED step_state
       ELSE IF Len(CurrentBatch) = 1
            THEN \* main.py:98-102  the step is called in the main thread
                 /\ step_state' = [step_state EXCEPT ![CurrentBatch[1].pos] = "running"]
                 /\ main_pc' = "single"
            ELSE \* main.py:107-108, 213  the batch gets its executor
                 /\ main_pc' = "submit"
                 /\ UNCHANGED step_state
    /\ UNCHANGED <<batch_idx, handled>>
    /\ UNCHANGED <<inner_workers, completed_steps>>
    /\ UNCHANGED batch_frame

\* main.py:102-104  the directly called step returned
SingleReturns ==
    /\ main_pc = "single"
    /\ step_state[CurrentBatch[1].pos] = "returned"
    /\ batch_idx' = batch_idx + 1
    /\ main_pc' = "loop"
    /\ UNCHANGED <<step_state, handled>>
    /\ UNCHANGED <<inner_workers, completed_steps>>
    /\ UNCHANGED batch_frame

\* main.py:102  the directly called step raised: nothing catches it
SingleRaises ==
    /\ main_pc = "single"
    /\ step_state[CurrentBatch[1].pos] = "raised"
    /\ main_pc' = "raised"
    /\ UNCHANGED <<batch_idx, step_state, handled>>
    /\ UNCHANGED <<inner_workers, completed_steps>>
    /\ UNCHANGED batch_frame

\* main.py:216-219  the next step of the batch is submitted
Submit ==
    /\ main_pc = "submit"
    /\ LET todo == {j \in 1..Len(CurrentBatch) :
                       step_state[CurrentBatch[j].pos] = "pending"}
       IN  IF todo = {}
           THEN main_pc' = "wait" /\ UNCHANGED step_state
           ELSE LET j == CHOOSE j \in todo : \A k \in todo : j <= k IN
                /\ step_state' = [step_state EXCEPT ![CurrentBatch[j].pos] = "submitted"]
                /\ UNCHANGED main_pc
    /\ UNCHANGED <<batch_idx, handled>>
    /\ UNCHANGED <<inner_workers, completed_steps>>
    /\ UNCHANGED batch_frame

\* a worker thread of the pool takes a submitted step
WorkerStarts(p) ==
    /\ step_state[p] = "submitted"
    /\ step_state' = [step_state EXCEPT ![p] = "running"]
    /\ UNCHANGED <<main_pc, batch_idx, handled>>
    /\ UNCHANGED <<inner_workers, completed_steps>>
    /\ UNCHANGED batch_frame

\* the mutant: a pool that is left without waiting for its workers
pools_joined_nowait(running) == TRUE

\* main.py:339, 423, scraper.py:149  every worker pool inside a step is a
\* with block: it is left, by return or by exception, after shutdown(wait=True)
pools_joined(running) == running = 0

\* main.py:343, 441, scraper.py:150  a running step starts a query worker,
\* a URL worker or a fetch worker
InnerStarts(p) ==
    /\ step_state[p] = "running"
    /\ steps[p].search_queries # <<>>
    /\ inner_workers[p] < NumWorkers
    /\ inner_workers' = [inner_workers EXCEPT ![p] = @ + 1]
    /\ UNCHANGED <<main_pc, batch_idx, step_state, handled, completed_steps>>
    /\ UNCHANGED batch_frame

\* main.py:403-503, scraper.py:108-138  a worker of the step ends
InnerEnds(p) ==
    /\ inner_workers[p] > 0
    /\ inner_workers' = [inner_workers EXCEPT ![p] = @ - 1]
    /\ UNCHANGED <<main_pc, batch_idx, step_state, handled, completed_steps>>
    /\ UNCHANGED batch_frame

\* main.py:550  "completed_steps": list(range(1, current_step + 1))
completed_steps_of(current_step) == [i \in 1..current_step |-> i]

\* main.py:282-401, 544-555  _execute_step returns, after its
\* _save_checkpoint(current_step=step_number)
StepReturns(p) ==
    /\ step_state[p] = "running"
    /\ steps[p].search_queries # <<>>
    /\ pools_joined(inner_workers[p])
    /\ completed_steps' = completed_steps_of(steps[p].step_number)
    /\ step_state' = [step_state EXCEPT ![p] = "returned"]
    /\ UNCHANGED <<main_pc, batch_idx, handled>>
    /\ UNCHANGED inner_workers
    /\ UNCHANGED batch_frame

\* main.py:339  _execute_step raises (a step without search queries: the
\* query pool cannot be built with max_workers = 0)
StepRaises(p) ==
    /\ step_state[p] = "running"
    /\ steps[p].search_queries = <<>>
    /\ step_state' = [step_state EXCEPT ![p] = "raised"]
    /\ UNCHANGED <<main_pc, batch_idx, handled>>
    /\ UNCHANGED <<inner_workers, completed_steps>>
    /\ UNCHANGED batch_frame

\* main.py:222-231  as_completed yields a finished future; its result or
\* exception is taken inside the try
AsCompleted(p) ==
    /\ main_pc = "wait"
    /\ p \in PosOf(CurrentBatch)
    /\ Finished(p)
    /\ p \notin handled
    /\ handled' = handled \cup {p}
    /\ UNCHANGED <<main_pc, batch_idx, step_state>>
    /\ UNCHANGED <<inner_workers, completed_steps>>
    /\ UNCHANGED batch_frame

DrainedAfterFirst(batch) == \E p \in PosOf(batch) : p \in handled

\* main.py:213, 222  the as_completed loop ends when every future of the
\* batch has been yielded, and the with block then shuts the executor down
Drained(batch) == \A p \in PosOf(batch) : p \in handled

BatchJoined ==
    /\ main_pc = "wait"
    /\ Drained(CurrentBatch)
    /\ batch_idx' = batch_idx + 1
    /\ main_pc' = "loop"
    /\ UNCHANGED <<step_state, handled>>
    /\ UNCHANGED <<inner_workers, completed_steps>>
    /\ UNCHANGED batch_frame

\* main.py:110-142  sufficiency check, report, return
AfterBatches ==
    /\ main_pc = "sanity"
    /\ main_pc' = "returned"
    /\ UNCHANGED <<batch_idx, step_state, handled>>
    /\ UNCHANGED <<inner_workers, completed_steps>>
    /\ UNCHANGED batch_frame

BatchNext ==
    \/ RunPlanStep
    \/ CreateBatches
    \/ BatchLoop
    \/ SingleReturns
    \/ SingleRaises
    \/ Submit
    \/ \E p \in Positions : WorkerStarts(p)
    \/ \E p \in Positions : InnerStarts(p)
    \/ \E p \in Positions : InnerEnds(p)
    \/ \E p \in Positions : StepReturns(p)
    \/ \E p \in Positions : StepRaises(p)
    \/ \E p \in Positions : AsCompleted(p)
    \/ BatchJoined
    \/ AfterBatches

(***************************************************************************)
(* The accumulators and the checkpoint store.  The checkpoint file holds   *)
(* the JSON text json.dump writes, as a list of tokens: braces, keys,      *)
(* scalars, and lists between brackets.  load parses the tokens back and   *)
(* returns None when the file is missing or does not parse.                *)
(***************************************************************************)
Urls == {"u1", "u2"}

\* extractor.py:72-77  a fact and the URL it was extracted from
Facts == [fact : {"f"}, source : Urls]

Tok(t, v) == [t |-> t, v |-> v]

Member(key, value_tokens) == <<Tok("key", key)>> \o value_tokens

JsonList(xs) ==
    <<Tok("[", "")>> \o [i \in 1..Len(xs) |-> Tok("elem", xs[i])] \o <<Tok("]", "")>>

\* checkpoint_manager.py:34-41  json.dump of {**state, timestamp, version}
json_dump(state) ==
    <<Tok("{", "")>>
    \o Member("user_prompt", <<Tok("str", state.user_prompt)>>)
    \o Member("research_plan", <<Tok("obj", state.research_plan)>>)
    \o Member("current_step", <<Tok("num", state.current_step)>>)
    \o Member("completed_steps", JsonList(state.completed_steps))
    \o Member("all_collected_facts", JsonList(state.all_collected_facts))
    \o Member("scraped_urls", JsonList(state.scraped_urls))
    \o Member("timestamp", <<Tok("str", "now")>>)
    \o Member("checkpoint_version", <<Tok("str", "1.0")>>)
    \o <<Tok("}", "")>>

ParseError == [ok |-> FALSE, data |-> <<>>]

\* the members of a JSON object from token i on, added to the dict acc;
\* the closing brace must be the last token of the text
RECURSIVE ParseMembers(_, _, _)
ParseMembers(c, i, acc) ==
    IF i > Len(c) THEN ParseError
    ELSE IF c[i].t = "}"
         THEN IF i = Len(c) THEN [ok |-> TRUE, data |-> acc] ELSE ParseError
    ELSE IF c[i].t # "key" \/ i + 1 > Len(c) THEN ParseError
    ELSE IF c[i + 1].t \in {"str", "num", "obj"}
         THEN ParseMembers(c, i + 2, (c[i].v :> c[i + 1].v) @@ acc)
    ELSE IF c[i + 1].t # "[" THEN ParseError
    ELSE LET closes == {j \in (i + 2)..Len(c) : c[j].t = "]"} IN
         IF closes = {} THEN ParseError
         ELSE LET j == CHOOSE j \in closes : \A k \in closes : j <= k IN
              IF \E k \in (i + 2)..(j - 1) : c[k].t # "elem" THEN ParseError
              ELSE ParseMembers(c, j + 1,
                       (c[i].v :> [k \in 1..(j - i - 2) |-> c[i + 1 + k].v]) @@ acc)

\* checkpoint_manager.py:57  json.load
json_load(c) ==
    IF c = <<>> THEN ParseError
    ELSE IF c[1].t # "{" THEN ParseError
    ELSE ParseMembers(c, 2, <<>>)

\* dict.get(key, default)
Get(d, key, default) == IF key \in DOMAIN d THEN d[key] ELSE default

NoFile == [exists |-> FALSE, content |-> <<>>]

\* checkpoint_manager.py:40  open(path, 'w'): the file is created or
\* truncated, and this handle's position is its start
open_write(file) == [exists |-> TRUE, content |-> <<>>]

\* checkpoint_manager.py:41  json.dump(state, f) and the close: the text
\* goes to the file from this handle's position on, over what is there;
\* what lies beyond the text stays
file_write(file, text) ==
    [exists  |-> TRUE,
     content |-> text \o SubSeq(file.content, Len(text) + 1, Len(file.content))]

clear_keeps(file) == file

\* checkpoint_manager.py:70-74  os.remove when the file exists
clear(file) == IF file.exists THEN NoFile ELSE file

\* checkpoint_manager.py:45-64  the dict, or None (present = FALSE)
load(file) ==
    IF ~file.exists THEN [present |-> FALSE, data |-> <<>>]
    ELSE LET r == json_load(file.content) IN
         IF r.ok THEN [present |-> TRUE, data |-> r.data]
         ELSE [present |-> FALSE, data |-> <<>>]

\* list(self.scraped_urls): the elements of the set in some order
ListsOf(set) ==
    {xs \in [1..Cardinality(set) -> set] :
        \A i \in DOMAIN xs : \A j \in DOMAIN xs : xs[i] = xs[j] => i = j}

\* main.py:546-553  the state _save_checkpoint builds
CheckpointState(facts, url_list, current_step) ==
    [user_prompt         |-> "prompt",
     research_plan       |-> steps,
     current_step        |-> current_step,
     completed_steps     |-> [i \in 1..current_step |-> i],
     all_collected_facts |-> facts,
     scraped_urls        |-> url_list]

NotSaving == [pc |-> "idle", url_list |-> <<>>, current_step |-> 0]

\* no thread is inside _save_checkpoint
NoSaveInProgress == \A t \in DOMAIN savers : savers[t].pc = "idle"

NothingSaved == [present |-> FALSE, facts |-> <<>>, urls |-> {}, current_step |-> 0]

restored_nothing(data) == {}

\* main.py:563  set(checkpoint_data.get('scraped_urls', []))
restored_urls(data) == Range(Get(data, "scraped_urls", <<>>))

\* main.py:562  checkpoint_data.get('all_collected_facts', [])
restored_facts(data) == Get(data, "all_collected_facts", <<>>)

CkptIdle ==
    /\ all_collected_facts = <<>>
    /\ scraped_urls = {}
    /\ ckpt_file = NoFile
    /\ last_saved = NothingSaved
    /\ ckpt_op = "off"
    /\ savers = <<>>

\* main.py:33,38  a new ResearchSystem, no checkpoint on disk
CkptInit ==
    /\ all_collected_facts = <<>>
    /\ scraped_urls = {}
    /\ ckpt_file = NoFile
    /\ last_saved = NothingSaved
    /\ ckpt_op = "new"
    /\ savers = [t \in Workers |-> NotSaving]

\* main.py:498-500  a URL task appends a fact
FactAppended ==
    /\ Len(all_collected_facts) < MaxFacts
    /\ \E f \in Facts : all_collected_facts' = Append(all_collected_facts, f)
    /\ ckpt_op' = "fact"
    /\ UNCHANGED <<scraped_urls, ckpt_file, last_saved, savers>>
    /\ UNCHANGED ckpt_frame

\* main.py:438  a URL is marked
UrlMarked ==
    /\ \E u \in Urls \ scraped_urls : scraped_urls' = scraped_urls \cup {u}
    /\ ckpt_op' = "url"
    /\ UNCHANGED <<all_collected_facts, ckpt_file, last_saved, savers>>
    /\ UNCHANGED ckpt_frame

\* main.py:401, 544-553, checkpoint_manager.py:40  a step thread, at the
\* end of _execute_step, builds the state (the URL set copied into a list,
\* the fact list by reference) and opens the file for writing
SaveBegin(t) ==
    /\ savers[t].pc = "idle"
    /\ \E current_step \in 0..MaxSteps : \E url_list \in ListsOf(scraped_urls) :
        \* main.py:80, 115: the main thread saves while no step runs;
        \* main.py:401: the steps of a batch are different steps
        /\ current_step = 0 => NoSaveInProgress
        /\ \A o \in Workers \ {t} :
              savers[o].pc = "dumping" =>
                  savers[o].current_step \notin {0, current_step}
        /\ savers' = [savers EXCEPT ![t] = [pc |-> "dumping",
                                            url_list |-> url_list,
                                            current_step |-> current_step]]
    /\ ckpt_file' = open_write(ckpt_file)
    /\ ckpt_op' = "save"
    /\ UNCHANGED <<all_collected_facts, scraped_urls, last_saved>>
    /\ UNCHANGED ckpt_frame

\* checkpoint_manager.py:41-43  the dump into the opened file, and the close
SaveEnd(t) ==
    /\ savers[t].pc = "dumping"
    /\ ckpt_file' = file_write(ckpt_file,
                        json_dump(CheckpointState(all_collected_facts,
                                                  savers[t].url_list,
                                                  savers[t].current_step)))
    /\ last_saved' = [present |-> TRUE, facts |-> all_collected_facts,
                      urls |-> Range(savers[t].url_list),
                      current_step |-> savers[t].current_step]
    /\ savers' = [savers EXCEPT ![t] = NotSaving]
    /\ ckpt_op' = "saved"
    /\ UNCHANGED <<all_collected_facts, scraped_urls>>
    /\ UNCHANGED ckpt_frame

\* checkpoint_manager.py:70-74
ClearCheckpoint ==
    /\ ckpt_op # "clear"
    /\ NoSaveInProgress
    /\ ckpt_file' = clear(ckpt_file)
    /\ last_saved' = NothingSaved
    /\ ckpt_op' = "clear"
    /\ UNCHANGED <<all_collected_facts, scraped_urls, savers>>
    /\ UNCHANGED ckpt_frame

\* main.py:31-53, 557-565  ResearchSystem(resume=True): empty accumulators,
\* then _load_checkpoint
ResumeSystem ==
    /\ NoSaveInProgress
    /\ LET checkpoint_data == load(ckpt_file) IN
       IF checkpoint_data.present
       THEN /\ all_collected_facts' = restored_facts(checkpoint_data.data)
            /\ scraped_urls' = restored_urls(checkpoint_data.data)
       ELSE /\ all_collected_facts' = <<>>
            /\ scraped_urls' = {}
    /\ ckpt_op' = "resume"
    /\ UNCHANGED <<ckpt_file, last_saved, savers>>
    /\ UNCHANGED ckpt_frame

\* main.py:31-50  ResearchSystem(resume=False)
NewSystem ==
    /\ ckpt_op # "new"
    /\ NoSaveInProgress
    /\ all_collected_facts' = <<>>
    /\ scraped_urls' = {}
    /\ ckpt_op' = "new"
    /\ UNCHANGED <<ckpt_file, last_saved, savers>>
    /\ UNCHANGED ckpt_frame

CkptNext ==
    \/ FactAppended
    \/ UrlMarked
    \/ \E t \in Workers : SaveBegin(t)
    \/ \E t \in Workers : SaveEnd(t)
    \/ ClearCheckpoint
    \/ ResumeSystem
    \/ NewSystem

(***************************************************************************)
(* Query workers and URL tasks.  Each query worker runs _execute_query     *)
(* once: the search, then for each of the top results the test and insert  *)
(* on scraped_urls under urls_lock and the submission of _process_url to   *)
(* its URL pool, then the join of that pool.  Workers of all steps and     *)
(* iterations share scraped_urls, urls_lock and the fact list.  The system *)
(* is constructed first, with or without resume, over whatever checkpoint  *)
(* an earlier run left on disk.                                            *)
(***************************************************************************)
top_results == 3

Min(a, b) == IF a < b THEN a ELSE b

FactOf(u) == [fact |-> "f", source |-> u]

\* the file and what was saved in it, as an earlier run's save leaves them
SavedBefore(facts, url_list) ==
    [file  |-> file_write(open_write(NoFile),
                          json_dump(CheckpointState(facts, url_list, 1))),
     saved |-> [present |-> TRUE, facts |-> facts, urls |-> Range(url_list),
                current_step |-> 1]]

EarlierCheckpoints ==
    {[file |-> NoFile, saved |-> NothingSaved],
     SavedBefore(<<>>, <<>>),
     SavedBefore(<<FactOf("u1")>>, <<"u1">>),
     SavedBefore(<<FactOf("u2"), FactOf("u1")>>, <<"u2", "u1">>)}

AtStart == [pc |-> "idle", n |-> 0, idx |-> 0, url |-> "", found |-> FALSE]

UrlsIdle ==
    /\ sys_pc = "off"
    /\ resume = FALSE
    /\ urls_lock = 0
    /\ qw = <<>>
    /\ tasks = <<>>
    /\ skips = 0
    /\ fetched = <<>>

UrlsInit ==
    /\ sys_pc = "construct"
    /\ resume \in BOOLEAN
    /\ urls_lock = 0
    /\ qw = [w \in Workers |-> AtStart]
    /\ tasks = [w \in Workers |-> <<>>]
    /\ skips = 0
    /\ fetched = [u \in Urls |-> 0]
    /\ all_collected_facts = <<>>
    /\ scraped_urls = {}
    /\ \E c \in EarlierCheckpoints : ckpt_file = c.file /\ last_saved = c.saved
    /\ ckpt_op = "new"
    /\ savers = <<>>

\* main.py:31-53, 557-565  __init__: the accumulators start empty and
\* _load_checkpoint fills them when resume is set and a checkpoint loads
Construct ==
    /\ sys_pc = "construct"
    /\ LET checkpoint_data == load(ckpt_file) IN
       IF resume /\ checkpoint_data.present
       THEN /\ all_collected_facts' = restored_facts(checkpoint_data.data)
            /\ scraped_urls' = restored_urls(checkpoint_data.data)
       ELSE UNCHANGED <<all_collected_facts, scraped_urls>>
    /\ sys_pc' = "executing"
    /\ UNCHANGED <<resume, urls_lock, qw, tasks, skips, fetched>>
    /\ UNCHANGED urls_frame

\* main.py:414-421  the search; no results ends the query
QSearch(w) ==
    /\ sys_pc = "executing"
    /\ qw[w].pc = "idle"
    /\ \E len \in 0..MaxResults :
           qw' = [qw EXCEPT ![w].n = Min(len, top_results),
                            ![w].pc = IF len = 0 THEN "done" ELSE "loop"]
    /\ UNCHANGED <<sys_pc, resume, urls_lock, tasks, skips, fetched>>
    /\ UNCHANGED <<all_collected_facts, scraped_urls>>
    /\ UNCHANGED urls_frame

LockFreeAlways(holder) == TRUE

\* main.py:432  with self.urls_lock: entered only while no thread holds it
LockFree(holder) == holder = 0

\* main.py:427-432  the next result's URL, and the lock taken for it
QAcquire(w) ==
    /\ qw[w].pc = "loop"
    /\ qw[w].idx < qw[w].n
    /\ LockFree(urls_lock)
    /\ urls_lock' = w
    /\ \E u \in Urls :
           qw' = [qw EXCEPT ![w].url = u, ![w].idx = @ + 1, ![w].pc = "check"]
    /\ UNCHANGED <<sys_pc, resume, tasks, skips, fetched>>
    /\ UNCHANGED <<all_collected_facts, scraped_urls>>
    /\ UNCHANGED urls_frame

\* main.py:433  if url in self.scraped_urls
QCheck(w) ==
    /\ qw[w].pc = "check"
    /\ qw' = [qw EXCEPT ![w].found = (qw[w].url \in scraped_urls),
                        ![w].pc = "decide"]
    /\ UNCHANGED <<sys_pc, resume, urls_lock, tasks, skips, fetched>>
    /\ UNCHANGED <<all_collected_facts, scraped_urls>>
    /\ UNCHANGED urls_frame

\* main.py:434-436  already scraped: counted as a skip, lock released
QSkip(w) ==
    /\ qw[w].pc = "decide"
    /\ qw[w].found
    /\ skips' = skips + 1
    /\ urls_lock' = 0
    /\ qw' = [qw EXCEPT ![w].pc = "loop"]
    /\ UNCHANGED <<sys_pc, resume, tasks, fetched>>
    /\ UNCHANGED <<all_collected_facts, scraped_urls>>
    /\ UNCHANGED urls_frame

\* main.py:437-438  the URL is marked, lock released
QMark(w) ==
    /\ qw[w].pc = "decide"
    /\ ~qw[w].found
    /\ scraped_urls' = scraped_urls \cup {qw[w].url}
    /\ urls_lock' = 0
    /\ qw' = [qw EXCEPT ![w].pc = "submit"]
    /\ UNCHANGED <<sys_pc, resume, tasks, skips, fetched>>
    /\ UNCHANGED all_collected_facts
    /\ UNCHANGED urls_frame

\* main.py:440-445  executor.submit(self._process_url, url, ...)
QSubmit(w) ==
    /\ qw[w].pc = "submit"
    /\ tasks' = [tasks EXCEPT ![w] = Append(@, [url |-> qw[w].url, at |-> "queued"])]
    /\ qw' = [qw EXCEPT ![w].pc = "loop"]
    /\ UNCHANGED <<sys_pc, resume, urls_lock, skips, fetched>>
    /\ UNCHANGED <<all_collected_facts, scraped_urls>>
    /\ UNCHANGED urls_frame

\* main.py:447-452  every submitted _process_url is over: the query returns
QJoin(w) ==
    /\ qw[w].pc = "loop"
    /\ qw[w].idx = qw[w].n
    /\ \A i \in 1..Len(tasks[w]) : tasks[w][i].at = "done"
    /\ qw' = [qw EXCEPT ![w].pc = "done"]
    /\ UNCHANGED <<sys_pc, resume, urls_lock, tasks, skips, fetched>>
    /\ UNCHANGED <<all_collected_facts, scraped_urls>>
    /\ UNCHANGED urls_frame

\* main.py:465-484  a URL worker starts _process_url: cache lookup or fetch
TaskFetch(w, i) ==
    /\ tasks[w][i].at = "queued"
    /\ tasks' = [tasks EXCEPT ![w][i].at = "fetching"]
    /\ fetched' = [fetched EXCEPT ![tasks[w][i].url] = @ + 1]
    /\ UNCHANGED <<sys_pc, resume, urls_lock, qw, skips>>
    /\ UNCHANGED <<all_collected_facts, scraped_urls>>
    /\ UNCHANGED urls_frame

\* main.py:486-503  no content, or content and the facts extracted from it
\* appended under facts_lock
TaskDone(w, i) ==
    /\ tasks[w][i].at = "fetching"
    /\ tasks' = [tasks EXCEPT ![w][i].at = "done"]
    /\ \E facts \in {<<>>, <<FactOf(tasks[w][i].url)>>} :
           all_collected_facts' = all_collected_facts \o facts
    /\ UNCHANGED <<sys_pc, resume, urls_lock, qw, skips, fetched>>
    /\ UNCHANGED scraped_urls
    /\ UNCHANGED urls_frame

UrlsNext ==
    \/ Construct
    \/ \E w \in Workers : QSearch(w)
    \/ \E w \in Workers : QAcquire(w)
    \/ \E w \in Workers : QCheck(w)
    \/ \E w \in Workers : QSkip(w)
    \/ \E w \in Workers : QMark(w)
    \/ \E w \in Workers : QSubmit(w)
    \/ \E w \in Workers : QJoin(w)
    \/ \E w \in Workers : \E i \in 1..Len(tasks[w]) : TaskFetch(w, i)
    \/ \E w \in Workers : \E i \in 1..Len(tasks[w]) : TaskDone(w, i)

(***************************************************************************)
(* The end of the run: execute_research after the batch loop.  All step    *)
(* threads have been joined; the main thread runs the sufficiency check    *)
(* and its rescue query, saves the checkpoint, generates the report,       *)
(* clears the checkpoint and returns.                                      *)
(***************************************************************************)
rescue_num_results == 3
rescue_fetched == 2

None == "None"

\* sanity_checker.py:56  the dict returned when the call or the parse fails
DefaultJudgmentFailClosed == [pass |-> FALSE, rescue_query |-> "X"]

DefaultJudgment == [pass |-> TRUE, rescue_query |-> None]

\* sanity_checker.py:41  { "pass": boolean, "rescue_query": "string (or null)" }
JudgmentAnswers == [pass : BOOLEAN, rescue_query : {None, "", "X"}]

NoJudgment == [failed |-> FALSE, result |-> DefaultJudgment]

\* sanity_checker.py:44-56  check_global_sufficiency: the parsed answer of
\* the model, or the default when generate_content or json.loads raises
check_global_sufficiency ==
    {[failed |-> FALSE, result |-> r] : r \in JudgmentAnswers}
    \cup {[failed |-> TRUE, result |-> DefaultJudgment]}

\* Python truth of result.get('rescue_query')
Truthy(q) == q \notin {None, ""}

TopAll(results) == results

\* main.py:527  search_results[:2]
Top(results) == SubSeq(results, 1, Min(Len(results), rescue_fetched))

FinIdle ==
    /\ fin_pc = "off"
    /\ judgments = 0
    /\ judgment = NoJudgment
    /\ rescue_searches = 0
    /\ rescue_requested = 0
    /\ search_results = <<>>
    /\ rescue_fetches = 0
    /\ report = None

\* the batches are over: facts and URLs collected, the checkpoint of the
\* last step on disk
FinInit ==
    /\ fin_pc = "sanity"
    /\ judgments = 0
    /\ judgment = NoJudgment
    /\ rescue_searches = 0
    /\ rescue_requested = 0
    /\ search_results = <<>>
    /\ rescue_fetches = 0
    /\ report = None
    /\ \E c \in EarlierCheckpoints \ {[file |-> NoFile, saved |-> NothingSaved]} :
          /\ ckpt_file = c.file
          /\ last_saved = c.saved
          /\ all_collected_facts = c.saved.facts
          /\ scraped_urls = c.saved.urls
    /\ ckpt_op = "saved"
    /\ savers = <<>>

\* main.py:512-520  the judgment, and where it leads
Judge ==
    /\ fin_pc = "sanity"
    /\ judgments' = judgments + 1
    /\ \E j \in check_global_sufficiency :
          /\ judgment' = j
          /\ fin_pc' = IF j.result.pass THEN "save"
                       ELSE IF Truthy(j.result.rescue_query) THEN "rescue"
                       ELSE "save"
    /\ UNCHANGED <<rescue_searches, rescue_requested, search_results,
                   rescue_fetches, report>>
    /\ UNCHANGED <<all_collected_facts, ckpt_file, last_saved>>
    /\ UNCHANGED fin_frame

\* main.py:521-525  self.search_engine.search(rescue_query, num_results=3)
RescueSearch ==
    /\ fin_pc = "rescue"
    /\ rescue_searches' = rescue_searches + 1
    /\ rescue_requested' = rescue_num_results
    /\ \E results \in SeqsUpTo(Urls, rescue_num_results) : search_results' = results
    /\ fin_pc' = "rescue_loop"
    /\ UNCHANGED <<judgments, judgment, rescue_fetches, report>>
    /\ UNCHANGED <<all_collected_facts, ckpt_file, last_saved>>
    /\ UNCHANGED fin_frame

\* main.py:527-540  one result of search_results[:2]: scraped, and when
\* there is content its facts are appended to the shared list
RescueFetch ==
    /\ fin_pc = "rescue_loop"
    /\ rescue_fetches < Len(Top(search_results))
    /\ rescue_fetches' = rescue_fetches + 1
    /\ \E facts \in {<<>>, <<FactOf(Top(search_results)[rescue_fetches + 1])>>} :
          all_collected_facts' = all_collected_facts \o facts
    /\ UNCHANGED <<fin_pc, judgments, judgment, rescue_searches,
                   rescue_requested, search_results, report>>
    /\ UNCHANGED <<ckpt_file, last_saved>>
    /\ UNCHANGED fin_frame

\* main.py:542  the rescue loop is over
RescueDone ==
    /\ fin_pc = "rescue_loop"
    /\ rescue_fetches = Len(Top(search_results))
    /\ fin_pc' = "save"
    /\ UNCHANGED <<judgments, judgment, rescue_searches, rescue_requested,
                   search_results, rescue_fetches, report>>
    /\ UNCHANGED <<all_collected_facts, ckpt_file, last_saved>>
    /\ UNCHANGED fin_frame

\* main.py:115-116  the checkpoint before synthesis, saved by the main thread
FinalSave ==
    /\ fin_pc = "save"
    /\ \E url_list \in ListsOf(scraped_urls) :
          ckpt_file' = file_write(open_write(ckpt_file),
                           json_dump(CheckpointState(all_collected_facts,
                                                     url_list, Len(steps))))
    /\ last_saved' = [present |-> TRUE, facts |-> all_collected_facts,
                      urls |-> scraped_urls, current_step |-> Len(steps)]
    /\ fin_pc' = "report"
    /\ UNCHANGED <<judgments, judgment, rescue_searches, rescue_requested,
                   search_results, rescue_fetches, report>>
    /\ UNCHANGED all_collected_facts
    /\ UNCHANGED fin_frame

\* main.py:121-126  synthesizer.py:182-217, 379-411: the report, or the
\* error text when both models fail
GenerateReport ==
    /\ fin_pc = "report"
    /\ \E text \in {"report", "Error generating report"} : report' = text
    /\ fin_pc' = "clear"
    /\ UNCHANGED <<judgments, judgment, rescue_searches, rescue_requested,
                   search_results, rescue_fetches>>
    /\ UNCHANGED <<all_collected_facts, ckpt_file, last_saved>>
    /\ UNCHANGED fin_frame

\* main.py:129  self.checkpoint.clear()
FinalClear ==
    /\ fin_pc = "clear"
    /\ ckpt_file' = clear(ckpt_file)
    /\ last_saved' = NothingSaved
    /\ fin_pc' = "summary"
    /\ UNCHANGED <<judgments, judgment, rescue_searches, rescue_requested,
                   search_results, rescue_fetches, report>>
    /\ UNCHANGED all_collected_facts
    /\ UNCHANGED fin_frame

\* main.py:131-142  statistics, then return report
ReturnReport ==
    /\ fin_pc = "summary"
    /\ fin_pc' = "returned"
    /\ UNCHANGED <<judgments, judgment, rescue_searches, rescue_requested,
                   search_results, rescue_fetches, report>>
    /\ UNCHANGED <<all_collected_facts, ckpt_file, last_saved>>
    /\ UNCHANGED fin_frame

FinNext ==
    \/ Judge
    \/ RescueSearch
    \/ RescueFetch
    \/ RescueDone
    \/ FinalSave
    \/ GenerateReport
    \/ FinalClear
    \/ ReturnReport

(***************************************************************************)
(* The source cache: an index (cache key -> metadata) and one content     *)
(* file per key.  Time is counted in hours.  The calls are those of the    *)
(* class's interface, made one at a time.                                  *)
(***************************************************************************)
cache_ttl_hours == 24

CacheUrls == {"https://docs.python.org/3/", "https://blog.example.com/post"}

Contents == {"", "c1", "c2"}

\* source_cache.py:214-222
cache_worthy_domains ==
    {"github.com", "docs.", "documentation.", ".edu", ".gov", ".org",
     "arxiv.org", "wikipedia.org", "stackoverflow.com", "python.org",
     "ai.google.dev", "cloud.google.com", "openai.com", "anthropic.com",
     "huggingface.co", "paperswithcode.com"}

\* the URLs of the model, each with the listed domains it contains as
\* substrings
DomainsIn(url) ==
    CASE url = "https://docs.python.org/3/" -> {"docs.", "python.org", ".org"}
      [] url = "https://arxiv.org/abs/1706.03762" -> {"arxiv.org", ".org"}
      [] OTHER -> {}

\* source_cache.py:224  any(domain in url.lower() for domain in ...)
should_cache(url) == \E domain \in cache_worthy_domains : domain \in DomainsIn(url)

\* source_cache.py:53-55  md5 of the URL: one key per URL
get_cache_key(url) ==
    CASE url = "https://docs.python.org/3/" -> "k1"
      [] url = "https://blog.example.com/post" -> "k2"
      [] url = "https://arxiv.org/abs/1706.03762" -> "k3"

Drop(f, k) == [x \in DOMAIN f \ {k} |-> f[x]]

is_expired_never(timestamp, t) == FALSE

\* source_cache.py:57-63  datetime.now() - cached_time > self.cache_ttl
is_expired(timestamp, t) == t - timestamp > cache_ttl_hours

\* source_cache.py:139-154  index entry and content file removed
remove(c, url) ==
    LET cache_key == get_cache_key(url) IN
    [c EXCEPT !.index = Drop(@, cache_key), !.files = Drop(@, cache_key)]

\* source_cache.py:65-106  the cache afterwards and the value returned
get(c, url, t) ==
    LET cache_key == get_cache_key(url) IN
    IF cache_key \notin DOMAIN c.index
    THEN [cache |-> [c EXCEPT !.misses = @ + 1], value |-> None]
    ELSE IF is_expired(c.index[cache_key].timestamp, t)
    THEN [cache |-> remove([c EXCEPT !.misses = @ + 1], url), value |-> None]
    ELSE IF cache_key \in DOMAIN c.files
    THEN [cache |-> [c EXCEPT !.hits = @ + 1], value |-> c.files[cache_key]]
    ELSE [cache |-> [c EXCEPT !.misses = @ + 1], value |-> None]

\* source_cache.py:108-137  nothing for empty content; otherwise the file
\* is written and the index entry set
put(c, url, content, t) ==
    LET cache_key == get_cache_key(url) IN
    IF content = "" THEN c
    ELSE [c EXCEPT !.files = (cache_key :> content) @@ @,
                   !.index = (cache_key :> [url |-> url, timestamp |-> t,
                                            size_bytes |-> 2]) @@ @]

TheCache == [index |-> cache_index, files |-> cache_files,
             hits |-> hits, misses |-> misses]

\* what the call finds for the URL before it acts
Found(url) ==
    LET cache_key == get_cache_key(url) IN
    [had_entry |-> cache_key \in DOMAIN cache_index,
     age       |-> IF cache_key \in DOMAIN cache_index
                   THEN now - cache_index[cache_key].timestamp ELSE 0,
     had_file  |-> cache_key \in DOMAIN cache_files,
     content   |-> IF cache_key \in DOMAIN cache_files
                   THEN cache_files[cache_key] ELSE None]

NoCall == [op |-> "none", url |-> "", content |-> "", value |-> None,
           found |-> [had_entry |-> FALSE, age |-> 0, had_file |-> FALSE,
                      content |-> None],
           changed |-> FALSE]

CacheIdle ==
    /\ cache_index = <<>>
    /\ cache_files = <<>>
    /\ hits = 0
    /\ misses = 0
    /\ now = 0
    /\ cache_ret = NoCall

\* source_cache.py:14-32  SourceCache() over an empty cache directory
CacheInit ==
    /\ cache_index = <<>>
    /\ cache_files = <<>>
    /\ hits = 0
    /\ misses = 0
    /\ now = 0
    /\ cache_ret = [NoCall EXCEPT !.op = "init"]

Installed(c) ==
    /\ cache_index' = c.index
    /\ cache_files' = c.files
    /\ hits' = c.hits
    /\ misses' = c.misses

\* a call of get(url)
CacheGet(url) ==
    /\ hits + misses < MaxCalls
    /\ LET r == get(TheCache, url, now) IN
       /\ Installed(r.cache)
       /\ cache_ret' = [op |-> "get", url |-> url, content |-> "",
                        value |-> r.value, found |-> Found(url),
                        changed |-> (r.cache.index # cache_index
                                     \/ r.cache.files # cache_files)]
    /\ UNCHANGED now
    /\ UNCHANGED cache_frame

\* a call of put(url, content)
CachePut(url, content) ==
    /\ LET c == put(TheCache, url, content, now) IN
       /\ Installed(c)
       /\ cache_ret' = [op |-> "put", url |-> url, content |-> content,
                        value |-> None, found |-> Found(url),
                        changed |-> (c.index # cache_index
                                     \/ c.files # cache_files)]
    /\ UNCHANGED now
    /\ UNCHANGED cache_frame

\* a call of remove(url)
CacheRemove(url) ==
    /\ cache_ret.op # "remove"
    /\ LET c == remove(TheCache, url) IN
       /\ Installed(c)
       /\ cache_ret' = [op |-> "remove", url |-> url, content |-> "",
                        value |-> None, found |-> Found(url),
                        changed |-> (c.index # cache_index
                                     \/ c.files # cache_files)]
    /\ UNCHANGED now
    /\ UNCHANGED cache_frame

\* half a TTL passes
HoursPass ==
    /\ now + 12 <= MaxNow
    /\ now' = now + 12
    /\ cache_ret' = [NoCall EXCEPT !.op = "tick"]
    /\ UNCHANGED <<cache_index, cache_files, hits, misses>>
    /\ UNCHANGED cache_frame

\* the content file of an entry disappears from the cache directory (the
\* case the os.path.exists test of get provides for)
ContentFileLost(url) ==
    /\ get_cache_key(url) \in DOMAIN cache_files
    /\ cache_files' = Drop(cache_files, get_cache_key(url))
    /\ cache_ret' = [NoCall EXCEPT !.op = "lost"]
    /\ UNCHANGED <<cache_index, hits, misses, now>>
    /\ UNCHANGED cache_frame

CacheNext ==
    \/ \E url \in CacheUrls : CacheGet(url)
    \/ \E url \in CacheUrls : \E content \in Contents : CachePut(url, content)
    \/ \E url \in CacheUrls : CacheRemove(url)
    \/ HoursPass
    \/ \E url \in CacheUrls : ContentFileLost(url)

(***************************************************************************)
(* The URL workers of one step.  Each worker runs _process_url once, for   *)
(* a URL of its own (the scraped-URL guard submits a URL once): the cache  *)
(* lookup, the scrape, the cache store, the append to the step's source    *)
(* list, the extraction, and the extend of the fact list under facts_lock. *)
(* The workers share the SourceCache object, the source list and the fact  *)
(* list.  self.hits += 1 and self.misses += 1 are a read and a later       *)
(* write.  writes records every write to a shared structure.               *)
(***************************************************************************)
WorkUrls == {"https://docs.python.org/3/", "https://arxiv.org/abs/1706.03762",
             "https://blog.example.com/post"}

NotStarted == [pc |-> "idle", url |-> "", counter |-> "", seen |-> 0,
               content |-> "", facts |-> <<>>]

\* a thread holds a lock only inside that lock's with block
Holding(w) == facts_lock = w

Wrote(structure, w) ==
    writes' = writes \cup {[structure |-> structure, worker |-> w,
                            locked |-> Holding(w)]}

ProcIdle ==
    /\ pw = <<>>
    /\ step_sources = <<>>
    /\ facts_lock = 0
    /\ writes = {}

\* source_cache.py:14-32  the cache directory as an earlier run left it
EarlierCaches ==
    LET empty == [index |-> <<>>, files |-> <<>>, hits |-> 0, misses |-> 0] IN
    {empty} \cup {put(empty, url, "c1", 0) : url \in {u \in WorkUrls : should_cache(u)}}

\* main.py:33-41, 296  the accumulators and locks of a run inside a step:
\* step_sources = [], every submitted URL already in scraped_urls
ProcInit ==
    /\ pw = [w \in Workers |-> NotStarted]
    /\ step_sources = <<>>
    /\ facts_lock = 0
    /\ writes = {}
    /\ all_collected_facts = <<>>
    /\ scraped_urls = WorkUrls
    /\ ckpt_file = NoFile
    /\ last_saved = NothingSaved
    /\ ckpt_op = "off"
    /\ savers = <<>>
    /\ \E c \in EarlierCaches :
          /\ cache_index = c.index
          /\ cache_files = c.files
          /\ hits = c.hits
          /\ misses = c.misses
    /\ now = 0
    /\ cache_ret = NoCall

\* main.py:441-445, 463-466  executor.submit(self._process_url, url, ...):
\* the worker starts; cache-worthy URLs are looked up first
PStart(w) ==
    /\ pw[w].pc = "idle"
    /\ \E url \in WorkUrls :
          /\ \A v \in Workers \ {w} : pw[v].url # url
          /\ pw' = [pw EXCEPT ![w].url = url,
                              ![w].pc = IF should_cache(url) THEN "lookup"
                                        ELSE "scrape"]
    /\ UNCHANGED <<step_sources, facts_lock, writes>>
    /\ UNCHANGED <<all_collected_facts, cache_index, cache_files, hits, misses>>
    /\ UNCHANGED proc_frame

\* main.py:466, source_cache.py:75-101  source_cache.get(url) up to the
\* read of the counter it is about to increment
PLookup(w) ==
    /\ pw[w].pc = "lookup"
    /\ LET r == get(TheCache, pw[w].url, now)
           counter == IF r.cache.hits # hits THEN "hits" ELSE "misses"
       IN /\ cache_index' = r.cache.index
          /\ cache_files' = r.cache.files
          /\ pw' = [pw EXCEPT ![w].pc = "count",
                              ![w].counter = counter,
                              ![w].seen = IF counter = "hits" THEN hits ELSE misses,
                              ![w].content = IF r.value = None THEN "" ELSE r.value]
          /\ IF r.cache.index # cache_index
             THEN Wrote("cache_index", w) ELSE UNCHANGED writes
    /\ UNCHANGED <<step_sources, facts_lock>>
    /\ UNCHANGED <<all_collected_facts, hits, misses>>
    /\ UNCHANGED proc_frame

\* source_cache.py:77, 84, 98  the store of self.misses += 1 or
\* self.hits += 1, and main.py:471  if not scraped_content
PCount(w) ==
    /\ pw[w].pc = "count"
    /\ IF pw[w].counter = "hits"
       THEN hits' = pw[w].seen + 1 /\ UNCHANGED misses
       ELSE misses' = pw[w].seen + 1 /\ UNCHANGED hits
    /\ Wrote(pw[w].counter, w)
    /\ pw' = [pw EXCEPT ![w].pc = IF pw[w].content = "" THEN "scrape"
                                  ELSE "sources"]
    /\ UNCHANGED <<step_sources, facts_lock>>
    /\ UNCHANGED <<all_collected_facts, cache_index, cache_files>>
    /\ UNCHANGED proc_frame

\* main.py:472-483  scrape_with_timeout returns text or nothing
PScrape(w) ==
    /\ pw[w].pc = "scrape"
    /\ \E content \in {"", "c1"} :
          pw' = [pw EXCEPT ![w].content = content,
                           ![w].pc = IF content = "" THEN "done"
                                     ELSE IF should_cache(pw[w].url) THEN "put"
                                     ELSE "sources"]
    /\ UNCHANGED <<step_sources, facts_lock, writes>>
    /\ UNCHANGED <<all_collected_facts, cache_index, cache_files, hits, misses>>
    /\ UNCHANGED proc_frame

\* main.py:483-484  self.source_cache.put(url, scraped_content)
PPut(w) ==
    /\ pw[w].pc = "put"
    /\ LET c == put(TheCache, pw[w].url, pw[w].content, now) IN
          /\ cache_index' = c.index
          /\ cache_files' = c.files
    /\ Wrote("cache_index", w)
    /\ pw' = [pw EXCEPT ![w].pc = "sources"]
    /\ UNCHANGED <<step_sources, facts_lock>>
    /\ UNCHANGED <<all_collected_facts, hits, misses>>
    /\ UNCHANGED proc_frame

\* main.py:486-487  step_sources.append(url)
PSources(w) ==
    /\ pw[w].pc = "sources"
    /\ step_sources' = Append(step_sources, pw[w].url)
    /\ Wrote("step_sources", w)
    /\ pw' = [pw EXCEPT ![w].pc = "extract"]
    /\ UNCHANGED facts_lock
    /\ UNCHANGED <<all_collected_facts, cache_index, cache_files, hits, misses>>
    /\ UNCHANGED proc_frame

\* main.py:491-493  facts = extract_key_info(...); if facts
PExtract(w) ==
    /\ pw[w].pc = "extract"
    /\ \E facts \in {<<>>, <<FactOf(pw[w].url)>>} :
          pw' = [pw EXCEPT ![w].facts = facts,
                           ![w].pc = IF facts = <<>> THEN "done" ELSE "lock"]
    /\ UNCHANGED <<step_sources, facts_lock, writes>>
    /\ UNCHANGED <<all_collected_facts, cache_index, cache_files, hits, misses>>
    /\ UNCHANGED proc_frame

\* main.py:499  with self.facts_lock: entered when the lock is free
PLock(w) ==
    /\ pw[w].pc = "lock"
    /\ facts_lock = 0
    /\ facts_lock' = w
    /\ pw' = [pw EXCEPT ![w].pc = "extend"]
    /\ UNCHANGED <<step_sources, writes>>
    /\ UNCHANGED <<all_collected_facts, cache_index, cache_files, hits, misses>>
    /\ UNCHANGED proc_frame

\* main.py:500  self.all_collected_facts.extend(facts)
PExtend(w) ==
    /\ pw[w].pc = "extend"
    /\ all_collected_facts' = all_collected_facts \o pw[w].facts
    /\ Wrote("all_collected_facts", w)
    /\ pw' = [pw EXCEPT ![w].pc = "unlock"]
    /\ UNCHANGED <<step_sources, facts_lock>>
    /\ UNCHANGED <<cache_index, cache_files, hits, misses>>
    /\ UNCHANGED proc_frame

\* main.py:499-501  the end of the with block
PUnlock(w) ==
    /\ pw[w].pc = "unlock"
    /\ facts_lock' = 0
    /\ pw' = [pw EXCEPT ![w].pc = "done"]
    /\ UNCHANGED <<step_sources, writes>>
    /\ UNCHANGED <<all_collected_facts, cache_index, cache_files, hits, misses>>
    /\ UNCHANGED proc_frame

ProcNext ==
    \/ \E w \in Workers : PStart(w)
    \/ \E w \in Workers : PLookup(w)
    \/ \E w \in Workers : PCount(w)
    \/ \E w \in Workers : PScrape(w)
    \/ \E w \in Workers : PPut(w)
    \/ \E w \in Workers : PSources(w)
    \/ \E w \in Workers : PExtract(w)
    \/ \E w \in Workers : PLock(w)
    \/ \E w \in Workers : PExtend(w)
    \/ \E w \in Workers : PUnlock(w)

(***************************************************************************)
(* One fetch: _process_url calls scrape_with_timeout, which submits        *)
(* _scrape_worker to a pool of one thread inside a with block, waits for   *)
(* the future up to the timeout and returns from inside the block; the     *)
(* block's exit is executor.shutdown(wait=True).  The worker finishes at   *)
(* any time or never.  Time is counted in seconds.                         *)
(***************************************************************************)
Max(a, b) == IF a > b THEN a ELSE b

\* main.py:475  timeout = 20 if is_pdf else 7
caller_timeout(is_pdf) == IF is_pdf THEN 20 ELSE 7

\* scraper.py:146-147  timeout = max(timeout * 3, 20) for PDFs
effective_timeout(is_pdf, timeout) == IF is_pdf THEN Max(timeout * 3, 20) ELSE timeout

NoWorker == [state |-> "none", value |-> None]

ScrapeIdle ==
    /\ sc_pc = "off"
    /\ sc_pdf = FALSE
    /\ sc_timeout = 0
    /\ elapsed = 0
    /\ worker = NoWorker
    /\ timed_out = FALSE
    /\ sc_result = None
    /\ outcome = "none"

\* main.py:471-473  _process_url about to scrape a URL
ScrapeInit ==
    /\ sc_pc = "idle"
    /\ sc_pdf \in BOOLEAN
    /\ sc_timeout = 0
    /\ elapsed = 0
    /\ worker = NoWorker
    /\ timed_out = FALSE
    /\ sc_result = None
    /\ outcome = "none"

\* main.py:475-476, scraper.py:146-150  the call, the timeout and the submit
ScrapeCall ==
    /\ sc_pc = "idle"
    /\ sc_timeout' = effective_timeout(sc_pdf, caller_timeout(sc_pdf))
    /\ worker' = [state |-> "running", value |-> None]
    /\ sc_pc' = "waiting"
    /\ UNCHANGED <<sc_pdf, elapsed, timed_out, sc_result, outcome>>
    /\ UNCHANGED scrape_frame

\* a second passes while the caller is blocked
Tick ==
    /\ sc_pc \in {"waiting", "exit"}
    /\ worker.state = "running"
    /\ elapsed < MaxSeconds
    /\ elapsed' = elapsed + 1
    /\ UNCHANGED <<sc_pc, sc_pdf, sc_timeout, worker, timed_out, sc_result, outcome>>
    /\ UNCHANGED scrape_frame

\* scraper.py:108-138  _scrape_worker returns text or None (it catches
\* every exception)
WorkerReturns(value) ==
    /\ worker.state = "running"
    /\ worker' = [state |-> "done", value |-> value]
    /\ UNCHANGED <<sc_pc, sc_pdf, sc_timeout, elapsed, timed_out, sc_result, outcome>>
    /\ UNCHANGED scrape_frame

\* scraper.py:153-154  future.result returns the worker's value
ResultInTime ==
    /\ sc_pc = "waiting"
    /\ worker.state = "done"
    /\ sc_result' = worker.value
    /\ sc_pc' = "exit"
    /\ UNCHANGED <<sc_pdf, sc_timeout, elapsed, worker, timed_out, outcome>>
    /\ UNCHANGED scrape_frame

\* scraper.py:156-158  future.result raises TimeoutError: return None
ResultTimeout ==
    /\ sc_pc = "waiting"
    /\ worker.state = "running"
    /\ elapsed >= sc_timeout
    /\ sc_result' = None
    /\ timed_out' = TRUE
    /\ sc_pc' = "exit"
    /\ UNCHANGED <<sc_pdf, sc_timeout, elapsed, worker, outcome>>
    /\ UNCHANGED scrape_frame

\* the mutant's exit: shutdown(wait=False)
pool_joined_nowait(w) == TRUE

\* scraper.py:149  the exit of the with block, executor.shutdown(wait=True):
\* it returns when the pool's thread has finished
pool_joined(w) == w.state = "done"

\* scraper.py:149-161  leaving the with block on the way out of the return
BlockExit ==
    /\ sc_pc = "exit"
    /\ pool_joined(worker)
    /\ sc_pc' = "returned"
    /\ UNCHANGED <<sc_pdf, sc_timeout, elapsed, worker, timed_out, sc_result, outcome>>
    /\ UNCHANGED scrape_frame

\* main.py:486-503  if scraped_content: ... else: record_scraping(success=False)
RecordOutcome ==
    /\ sc_pc = "returned"
    /\ outcome' = IF sc_result # None THEN "success" ELSE "failure"
    /\ sc_pc' = "recorded"
    /\ UNCHANGED <<sc_pdf, sc_timeout, elapsed, worker, timed_out, sc_result>>
    /\ UNCHANGED scrape_frame

CallerSteps == ScrapeCall \/ ResultInTime \/ ResultTimeout \/ BlockExit \/ RecordOutcome

ScrapeNext ==
    \/ ScrapeCall
    \/ Tick
    \/ \E value \in {None, "c1"} : WorkerReturns(value)
    \/ ResultInTime
    \/ ResultTimeout
    \/ BlockExit
    \/ RecordOutcome

(***************************************************************************)
(* The search engine.  One SearchEngine object serves every query worker;  *)
(* each worker calls search, which reads and writes google_keys,           *)
(* current_google_key_index and using_tavily with no lock.  A step of a    *)
(* worker is one read or write of the shared fields.                       *)
(***************************************************************************)
num_google_keys == 2

GoogleKeys == 0..(num_google_keys - 1)

NotSearching == [pc |-> "idle", attempt |-> 0, current_key |-> 0]

SearchIdle ==
    /\ google_keys = <<>>
    /\ current_google_key_index = 0
    /\ using_tavily = FALSE
    /\ sw = <<>>
    /\ failed_keys = {}
    /\ searches = 0

\* search.py:24-37  SearchEngine()
SearchInit ==
    /\ google_keys = [k \in GoogleKeys |-> FALSE]
    /\ current_google_key_index = 0
    /\ using_tavily = FALSE
    /\ sw = [w \in Workers |-> NotSearching]
    /\ failed_keys = {}
    /\ searches = 0

\* the mutant: the index is left where it is
switch_google_key_stays(index) == index

\* search.py:165-167  _switch_google_key
switch_google_key(index) == (index + 1) % num_google_keys

\* search.py:50-52  search called; if self.using_tavily: Tavily
SBegin(w) ==
    /\ sw[w].pc \in {"idle", "done"}
    /\ searches < MaxCalls
    /\ searches' = searches + 1
    /\ sw' = [sw EXCEPT ![w] = [NotSearching EXCEPT
                 !.pc = IF using_tavily THEN "tavily" ELSE "loop"]]
    /\ UNCHANGED <<google_keys, current_google_key_index, using_tavily, failed_keys>>
    /\ UNCHANGED search_frame

\* search.py:55-56  the head of the for loop and the read of the current key
SPick(w) ==
    /\ sw[w].pc = "loop"
    /\ sw[w].attempt < num_google_keys
    /\ sw' = [sw EXCEPT ![w].pc = "test",
                        ![w].attempt = @ + 1,
                        ![w].current_key = current_google_key_index]
    /\ UNCHANGED <<google_keys, current_google_key_index, using_tavily,
                   failed_keys, searches>>
    /\ UNCHANGED search_frame

\* search.py:58-61  if current_key["exhausted"]: switch and continue
STest(w) ==
    /\ sw[w].pc = "test"
    /\ IF google_keys[sw[w].current_key]
       THEN /\ current_google_key_index' = switch_google_key(current_google_key_index)
            /\ sw' = [sw EXCEPT ![w].pc = "loop"]
       ELSE /\ sw' = [sw EXCEPT ![w].pc = "request"]
            /\ UNCHANGED current_google_key_index
    /\ UNCHANGED <<google_keys, using_tavily, failed_keys, searches>>
    /\ UNCHANGED search_frame

\* search.py:63-72  _search_google with the key: results, or None
SRequest(w, ok) ==
    /\ sw[w].pc = "request"
    /\ IF ok
       THEN /\ sw' = [sw EXCEPT ![w].pc = "done"]
            /\ UNCHANGED failed_keys
       ELSE /\ sw' = [sw EXCEPT ![w].pc = "mark"]
            /\ failed_keys' = failed_keys \cup {sw[w].current_key}
    /\ UNCHANGED <<google_keys, current_google_key_index, using_tavily, searches>>
    /\ UNCHANGED search_frame

\* search.py:75-76  current_key["exhausted"] = True
SMark(w) ==
    /\ sw[w].pc = "mark"
    /\ google_keys' = [google_keys EXCEPT ![sw[w].current_key] = TRUE]
    /\ sw' = [sw EXCEPT ![w].pc = "switch"]
    /\ UNCHANGED <<current_google_key_index, using_tavily, failed_keys, searches>>
    /\ UNCHANGED search_frame

\* search.py:77  self._switch_google_key()
SSwitch(w) ==
    /\ sw[w].pc = "switch"
    /\ current_google_key_index' = switch_google_key(current_google_key_index)
    /\ sw' = [sw EXCEPT ![w].pc = "loop"]
    /\ UNCHANGED <<google_keys, using_tavily, failed_keys, searches>>
    /\ UNCHANGED search_frame

\* search.py:79-82  after the loop: self.using_tavily = True
SFallback(w) ==
    /\ sw[w].pc = "loop"
    /\ sw[w].attempt = num_google_keys
    /\ using_tavily' = TRUE
    /\ sw' = [sw EXCEPT ![w].pc = "tavily"]
    /\ UNCHANGED <<google_keys, current_google_key_index, failed_keys, searches>>
    /\ UNCHANGED search_frame

\* search.py:52, 82  return self._search_tavily(query, num_results)
STavily(w) ==
    /\ sw[w].pc = "tavily"
    /\ sw' = [sw EXCEPT ![w].pc = "done"]
    /\ UNCHANGED <<google_keys, current_google_key_index, using_tavily,
                   failed_keys, searches>>
    /\ UNCHANGED search_frame

SearchNext ==
    \/ \E w \in Workers : SBegin(w)
    \/ \E w \in Workers : SPick(w)
    \/ \E w \in Workers : STest(w)
    \/ \E w \in Workers : \E ok \in BOOLEAN : SRequest(w, ok)
    \/ \E w \in Workers : SMark(w)
    \/ \E w \in Workers : SSwitch(w)
    \/ \E w \in Workers : SFallback(w)
    \/ \E w \in Workers : STavily(w)

(***************************************************************************)
(* The two-step API: POST /api/research/plan returns a plan for review,    *)
(* POST /api/research/execute receives the approved plan and runs the      *)
(* research.  What the planner returns is chosen by the environment.       *)
(***************************************************************************)
NoPlan == [steps |-> 0, topic |-> "none"]

\* Planner.py  the plans planner(query) can return
Plans == [steps : 1..MaxSteps, topic : {"docs", "code", "papers"}]

ApiIdle ==
    /\ api_pc = "off"
    /\ offered_plan = NoPlan
    /\ request_plan = NoPlan
    /\ executed_plan = NoPlan
    /\ planner_calls = 0
    /\ steps_run = 0

\* the server is up, no request made
ApiInit ==
    /\ api_pc = "idle"
    /\ offered_plan = NoPlan
    /\ request_plan = NoPlan
    /\ executed_plan = NoPlan
    /\ planner_calls = 0
    /\ steps_run = 0

\* api_server.py:224-252  POST /api/research/plan: planner(request.query);
\* no plan is a 500 answer
CreateResearchPlan ==
    /\ api_pc = "idle"
    /\ planner_calls' = planner_calls + 1
    /\ \E research_plan \in Plans \cup {NoPlan} :
          IF research_plan = NoPlan
          THEN UNCHANGED <<api_pc, offered_plan>>
          ELSE offered_plan' = research_plan /\ api_pc' = "planned"
    /\ planner_calls < MaxCalls
    /\ UNCHANGED <<request_plan, executed_plan, steps_run>>
    /\ UNCHANGED api_frame

\* api_server.py:85-88  the client approves: it posts ExecutePlanRequest with
\* the reviewed plan
ApprovePlan ==
    /\ api_pc = "planned"
    /\ request_plan' = offered_plan
    /\ api_pc' = "approved"
    /\ UNCHANGED <<offered_plan, executed_plan, planner_calls, steps_run>>
    /\ UNCHANGED api_frame

\* the mutant: execute_research is handed the plan of the request
plan_for_execution_given(approved, planned) == approved

\* api_server.py:279, main.py:69-73  research_system.execute_research(
\* request.query): research_plan = self._create_plan(user_prompt)
plan_for_execution(approved, planned) == planned

\* api_server.py:254-281, main.py:55-86  POST /api/research/execute: a new
\* ResearchSystem, execute_research(request.query), its plan; without a
\* plan the error text is returned as the report
ExecuteResearchPlan ==
    /\ api_pc = "approved"
    /\ planner_calls' = planner_calls + 1
    /\ \E research_plan \in Plans \cup {NoPlan} :
          LET plan == plan_for_execution(request_plan, research_plan) IN
          /\ executed_plan' = plan
          /\ api_pc' = IF plan = NoPlan THEN "completed" ELSE "executing"
    /\ UNCHANGED <<offered_plan, request_plan, steps_run>>
    /\ UNCHANGED api_frame

\* main.py:97-108  a step of the plan is executed
ExecuteStepOfPlan ==
    /\ api_pc = "executing"
    /\ steps_run < executed_plan.steps
    /\ steps_run' = steps_run + 1
    /\ UNCHANGED <<api_pc, offered_plan, request_plan, executed_plan, planner_calls>>
    /\ UNCHANGED api_frame

\* api_server.py:283-305  the report is returned
ReturnResponse ==
    /\ api_pc = "executing"
    /\ steps_run = executed_plan.steps
    /\ api_pc' = "completed"
    /\ UNCHANGED <<offered_plan, request_plan, executed_plan, planner_calls, steps_run>>
    /\ UNCHANGED api_frame

ApiNext ==
    \/ CreateResearchPlan
    \/ ApprovePlan
    \/ ExecuteResearchPlan
    \/ ExecuteStepOfPlan
    \/ ReturnResponse

(***************************************************************************)
(* The chatbot: every deep-research request calls execute_research on the  *)
(* ChatBot's research system, which is built at the first request.  The    *)
(* accumulators are those of the checkpoint group.                         *)
(***************************************************************************)
Accumulators(facts, urls) == [facts |-> facts, urls |-> urls]

NotRun == Accumulators(<<>>, {})

ChatIdle ==
    /\ chat_pc = "off"
    /\ research_system = "none"
    /\ run_start = NotRun
    /\ research_runs = 0

\* chatbot_integration.py:43  a new ChatBot: self.research_system = None
ChatInit ==
    /\ chat_pc = "idle"
    /\ research_system = "none"
    /\ run_start = NotRun
    /\ research_runs = 0
    /\ all_collected_facts = <<>>
    /\ scraped_urls = {}
    /\ ckpt_file = NoFile
    /\ last_saved = NothingSaved
    /\ ckpt_op = "off"
    /\ savers = <<>>

\* the mutant: the accumulators are emptied at the start of a run
at_run_start_emptied(facts, urls) == NotRun

\* main.py:55-86  execute_research assigns neither all_collected_facts nor
\* scraped_urls: the run starts with what the instance holds
at_run_start(facts, urls) == Accumulators(facts, urls)

\* chatbot_integration.py:197-208, main.py:31-53  _deep_research: a
\* ResearchSystem is built (resume=False: empty accumulators) only when
\* there is none, then execute_research is called on it
DeepResearch ==
    /\ chat_pc = "idle"
    /\ research_runs < MaxCalls
    /\ research_system' = "built"
    /\ LET held == IF research_system = "none" THEN NotRun
                   ELSE Accumulators(all_collected_facts, scraped_urls)
           begun == at_run_start(held.facts, held.urls) IN
          /\ all_collected_facts' = begun.facts
          /\ scraped_urls' = begun.urls
          /\ run_start' = begun
    /\ research_runs' = research_runs + 1
    /\ chat_pc' = "running"
    /\ UNCHANGED chat_frame

\* main.py:428-500  a URL of the run that is not in scraped_urls is marked
\* and fetched; a fact extracted from it is appended
ScrapeInRun ==
    /\ chat_pc = "running"
    /\ \E u \in Urls \ scraped_urls :
          /\ scraped_urls' = scraped_urls \cup {u}
          /\ \E found \in BOOLEAN :
                all_collected_facts' =
                    IF found /\ Len(all_collected_facts) < MaxFacts
                    THEN Append(all_collected_facts, FactOf(u))
                    ELSE all_collected_facts
    /\ UNCHANGED <<chat_pc, research_system, run_start, research_runs>>
    /\ UNCHANGED chat_frame

\* main.py:128-141, chatbot_integration.py:208  the report is returned;
\* checkpoint.clear() removes the file, not the instance's accumulators
ReturnToChat ==
    /\ chat_pc = "running"
    /\ chat_pc' = "idle"
    /\ UNCHANGED <<research_system, run_start, research_runs,
                   all_collected_facts, scraped_urls>>
    /\ UNCHANGED chat_frame

ChatNext ==
    \/ DeepResearch
    \/ ScrapeInRun
    \/ ReturnToChat

(***************************************************************************)
(* The worker pools of one iteration: the queries of the iteration run in  *)
(* a ThreadPoolExecutor, and every query runs the URL tasks of its search  *)
(* results in a pool of its own.  A pool starts a submitted task as soon   *)
(* as fewer than max_workers of its tasks are running.                     *)
(***************************************************************************)
query_pool_cap == 3
url_pool_cap == 3
search_num_results == 5

\* the iteration's query lists: none, fewer than the pool's cap, more than
\* max_queries_per_step
QueryLists == {<<>>, <<"q1", "q2">>, <<"q1", "q2", "q3", "q4", "q5", "q6">>}

\* search.py  search(query, num_results=5): the number of results
ResultCounts == {0, search_num_results}

\* the mutant: a pool as large as the submitted list
query_workers_uncapped(queries) == Len(queries)

\* main.py:339  max_workers=min(len(iter_queries[:5]), 3)
query_workers(queries) == Min(Len(Capped(queries)), query_pool_cap)

\* main.py:426  search_results[:3], by count
top(n) == Min(n, top_results)

QueryQueued ==
    [pc |-> "queued", results |-> 0, idx |-> 0, waiting |-> 0, running |-> 0]

\* the task has returned: its locals are gone
QueryDone ==
    [pc |-> "done", results |-> 0, idx |-> 0, waiting |-> 0, running |-> 0]

\* a task of a pool is being executed by one of the pool's threads
QueryRunning(i) == query_tasks[i].pc \in {"search", "urls", "join"}

RunningQueries == {i \in DOMAIN query_tasks : QueryRunning(i)}

ParIdle ==
    /\ par_pc = "off"
    /\ iter_queries = <<>>
    /\ query_tasks = <<>>

\* main.py:310-334  the iteration has its query list
ParInit ==
    /\ par_pc = "iteration"
    /\ iter_queries \in QueryLists
    /\ query_tasks = <<>>

\* main.py:339-345  the pool is built and every query of the capped list
\* is submitted; max_workers = 0 raises ValueError
SubmitQueries ==
    /\ par_pc = "iteration"
    /\ IF query_workers(iter_queries) <= 0
       THEN par_pc' = "raised" /\ UNCHANGED query_tasks
       ELSE /\ par_pc' = "submitted"
            /\ query_tasks' = [i \in 1..Len(Capped(iter_queries)) |-> QueryQueued]
    /\ UNCHANGED iter_queries
    /\ UNCHANGED par_frame

\* concurrent/futures/thread.py  a thread of the query pool takes the
\* oldest queued query
QueryStarts(i) ==
    /\ par_pc = "submitted"
    /\ query_tasks[i].pc = "queued"
    /\ \A j \in 1..(i - 1) : query_tasks[j].pc # "queued"
    /\ Cardinality(RunningQueries) < query_workers(iter_queries)
    /\ query_tasks' = [query_tasks EXCEPT ![i].pc = "search"]
    /\ UNCHANGED <<par_pc, iter_queries>>
    /\ UNCHANGED par_frame

\* main.py:416-420  the search returns; no result ends the task
QuerySearched(i) ==
    /\ query_tasks[i].pc = "search"
    /\ \E n \in ResultCounts :
          query_tasks' = [query_tasks EXCEPT
              ![i] = IF n = 0 THEN QueryDone
                     ELSE [@ EXCEPT !.results = n, !.pc = "urls"]]
    /\ UNCHANGED <<par_pc, iter_queries>>
    /\ UNCHANGED par_frame

\* main.py:426-445  the next of the top results: skipped as already
\* scraped, or marked and submitted to the URL pool
UrlLoop(i) ==
    /\ query_tasks[i].pc = "urls"
    /\ query_tasks[i].idx < top(query_tasks[i].results)
    /\ \E scraped \in BOOLEAN :
          query_tasks' = [query_tasks EXCEPT
              ![i].idx = @ + 1,
              ![i].waiting = IF scraped THEN @ ELSE @ + 1]
    /\ UNCHANGED <<par_pc, iter_queries>>
    /\ UNCHANGED par_frame

\* main.py:448  the for loop is over, the query waits for its URL tasks
UrlLoopEnds(i) ==
    /\ query_tasks[i].pc = "urls"
    /\ query_tasks[i].idx = top(query_tasks[i].results)
    /\ query_tasks' = [query_tasks EXCEPT ![i].pc = "join"]
    /\ UNCHANGED <<par_pc, iter_queries>>
    /\ UNCHANGED par_frame

\* concurrent/futures/thread.py  a thread of the URL pool (max_workers=3,
\* main.py:423) takes a submitted URL task
UrlStarts(i) ==
    /\ query_tasks[i].pc \in {"urls", "join"}
    /\ query_tasks[i].waiting > 0
    /\ query_tasks[i].running < url_pool_cap
    /\ query_tasks' = [query_tasks EXCEPT
          ![i].waiting = @ - 1, ![i].running = @ + 1]
    /\ UNCHANGED <<par_pc, iter_queries>>
    /\ UNCHANGED par_frame

\* main.py:454-503  _process_url returns or raises
UrlEnds(i) ==
    /\ query_tasks[i].pc \in {"urls", "join"}
    /\ query_tasks[i].running > 0
    /\ query_tasks' = [query_tasks EXCEPT ![i].running = @ - 1]
    /\ UNCHANGED <<par_pc, iter_queries>>
    /\ UNCHANGED par_frame

\* main.py:448-452  every URL future is done and the with block is left
QueryEnds(i) ==
    /\ query_tasks[i].pc = "join"
    /\ query_tasks[i].waiting = 0
    /\ query_tasks[i].running = 0
    /\ query_tasks' = [query_tasks EXCEPT ![i] = QueryDone]
    /\ UNCHANGED <<par_pc, iter_queries>>
    /\ UNCHANGED par_frame

\* main.py:347-352  every query future is done and the with block is left
QueriesJoined ==
    /\ par_pc = "submitted"
    /\ \A i \in DOMAIN query_tasks : query_tasks[i].pc = "done"
    /\ par_pc' = "joined"
    /\ UNCHANGED <<iter_queries, query_tasks>>
    /\ UNCHANGED par_frame

ParNext ==
    \/ SubmitQueries
    \/ \E i \in DOMAIN query_tasks : QueryStarts(i)
    \/ \E i \in DOMAIN query_tasks : QuerySearched(i)
    \/ \E i \in DOMAIN query_tasks : UrlLoop(i)
    \/ \E i \in DOMAIN query_tasks : UrlLoopEnds(i)
    \/ \E i \in DOMAIN query_tasks : UrlStarts(i)
    \/ \E i \in DOMAIN query_tasks : UrlEnds(i)
    \/ \E i \in DOMAIN query_tasks : QueryEnds(i)
    \/ QueriesJoined

(***************************************************************************)
(* The GPT manager: generate_content tries its GitHub tokens in turn.  An  *)
(* attempt is one pass of the inner while loop: the request (gpt-5, then   *)
(* gpt-4o when gpt-5 is not found) and the handling of its exception.      *)
(***************************************************************************)
TokenCounts == 1..3

RetryLimits == 1..3

\* what the provider answers to an attempt
Outcomes == {"content", "rate limit", "error"}

NoAttempts == [t \in {} |-> 0]

GptIdle ==
    /\ gpt_pc = "off"
    /\ tokens = 0
    /\ current_token_index = 0
    /\ gpt_max_retries = 0
    /\ tokens_tried = 0
    /\ gpt_retries = 0
    /\ attempts = NoAttempts

\* gpt_manager.py:21-28  GPTManager() with its token list
GptInit ==
    /\ gpt_pc = "idle"
    /\ tokens \in TokenCounts
    /\ current_token_index = 0
    /\ gpt_max_retries = 0
    /\ tokens_tried = 0
    /\ gpt_retries = 0
    /\ attempts = NoAttempts

\* gpt_manager.py:30-37  _rotate_token
rotate_token(index, n) == (index + 1) % n

\* gpt_manager.py:39-40, 60-64  generate_content(..., max_retries) is
\* called: tokens_tried = 0, the outer loop is entered, retries = 0
GptGenerate ==
    /\ gpt_pc \in {"idle", "returned", "raised"}
    /\ \E m \in RetryLimits : gpt_max_retries' = m
    /\ tokens_tried' = 0
    /\ gpt_retries' = 0
    /\ attempts' = [t \in 0..(tokens - 1) |-> 0]
    /\ gpt_pc' = "loop"
    /\ UNCHANGED <<tokens, current_token_index>>
    /\ UNCHANGED gpt_frame

\* gpt_manager.py:104-139  the except branch: the counters after an attempt
\* that raised, and where the loop goes (retry | rotate | raise)
after_exception(answer, count, tried, m, n) ==
    LET r == count + 1 IN
    IF r >= m
    THEN IF tried + 1 < n
         THEN [go |-> "rotate", retries |-> 0, tried |-> tried + 1]
         ELSE [go |-> "raise", retries |-> r, tried |-> tried + 1]
    ELSE IF answer = "rate limit"
         THEN \* 121-125  retries -= 1; continue
              [go |-> "retry", retries |-> r - 1, tried |-> tried]
         ELSE [go |-> "retry", retries |-> r, tried |-> tried]

\* gpt_manager.py:63-139  one attempt with the current token
GptAttempt(answer) ==
    /\ gpt_pc = "loop"
    /\ tokens_tried < tokens
    /\ gpt_retries < gpt_max_retries
    /\ attempts[current_token_index] < MaxCalls
    /\ attempts' = [attempts EXCEPT ![current_token_index] = @ + 1]
    /\ IF answer = "content"
       THEN /\ gpt_pc' = "returned"
            /\ UNCHANGED <<current_token_index, tokens_tried, gpt_retries>>
       ELSE LET a == after_exception(answer, gpt_retries, tokens_tried,
                                     gpt_max_retries, tokens) IN
            /\ gpt_retries' = a.retries
            /\ tokens_tried' = a.tried
            /\ current_token_index' =
                   IF a.go = "rotate" THEN rotate_token(current_token_index, tokens)
                   ELSE current_token_index
            /\ gpt_pc' = IF a.go = "raise" THEN "raised" ELSE "loop"
    /\ UNCHANGED <<tokens, gpt_max_retries>>
    /\ UNCHANGED gpt_frame

GptNext ==
    \/ GptGenerate
    \/ GptAttempt("content")
    \/ GptAttempt("rate limit")
    \/ GptAttempt("error")

(***************************************************************************)
(* The shared key pool under concurrent callers: the URL workers of a      *)
(* query call extract_key_info, and so gemini_manager.generate_content, at *)
(* the same time.  The pool's api_keys and current_index are those of the  *)
(* key pool above; nothing locks them.                                     *)
(***************************************************************************)
NotCalling == [pc |-> "idle", key |-> 0, retries |-> 0, result |-> "none"]

ExtIdle ==
    /\ callers = <<>>
    /\ rate_limited = {}

\* api_manager.py:21-26, main.py:441-445  the manager with its keys, and
\* the URL workers of a query
ExtInit ==
    /\ callers = [w \in Workers |-> NotCalling]
    /\ rate_limited = {}
    /\ \E n \in 2..MaxKeys : api_keys = [i \in 0..(n - 1) |-> FALSE]
    /\ current_index = 0
    /\ pool_pc = "off"
    /\ retries = 0
    /\ call_result = "none"
    /\ signals = 0
    /\ mark_raised = FALSE
    /\ request = NoRequest

\* api_manager.py:53-68  a worker enters generate_content: retries = 0
CallerBegins(w) ==
    /\ callers[w].pc = "idle"
    /\ callers' = [callers EXCEPT ![w] = [pc |-> "loop", key |-> 0,
                                          retries |-> 0, result |-> "none"]]
    /\ UNCHANGED <<rate_limited, api_keys, current_index>>
    /\ UNCHANGED ext_frame

\* api_manager.py:70-83  the request is made with get_current_key()
CallerSends(w) ==
    /\ callers[w].pc = "loop"
    /\ callers[w].retries < max_retries
    /\ callers' = [callers EXCEPT ![w].pc = "sent", ![w].key = current_index]
    /\ UNCHANGED <<rate_limited, api_keys, current_index>>
    /\ UNCHANGED ext_frame

\* api_manager.py:83-94  the response is returned
CallerReturns(w) ==
    /\ callers[w].pc = "sent"
    /\ callers' = [callers EXCEPT ![w].pc = "idle", ![w].result = "ok"]
    /\ UNCHANGED <<rate_limited, api_keys, current_index>>
    /\ UNCHANGED ext_frame

\* api_manager.py:96-106  the request made with the worker's key receives
\* a rate-limit signal (429 or quota)
CallerRateLimited(w) ==
    /\ callers[w].pc = "sent"
    /\ rate_limited' = rate_limited \cup {callers[w].key}
    /\ callers' = [callers EXCEPT ![w].pc = "limited"]
    /\ UNCHANGED <<api_keys, current_index>>
    /\ UNCHANGED ext_frame

\* api_manager.py:34  self.api_keys[self.current_index]["exhausted"] = True:
\* the key marked is the one current_index names at that moment
key_to_mark(used, index) == index

\* api_manager.py:107-120, 32-51  mark_current_exhausted(), then retries += 1
\* and continue, or the all-keys-exhausted exception
CallerMarks(w) ==
    /\ callers[w].pc = "limited"
    /\ LET m == mark_current_exhausted(api_keys,
                    key_to_mark(callers[w].key, current_index)) IN
          /\ api_keys' = m.api_keys
          /\ current_index' = m.current_index
          /\ callers' = [callers EXCEPT
                 ![w].pc = IF m.raised THEN "idle" ELSE "loop",
                 ![w].retries = IF m.raised THEN @ ELSE @ + 1,
                 ![w].result = IF m.raised THEN "all_exhausted" ELSE @]
    /\ UNCHANGED rate_limited
    /\ UNCHANGED ext_frame

\* api_manager.py:121-123  another error is re-raised
CallerFails(w) ==
    /\ callers[w].pc = "sent"
    /\ callers' = [callers EXCEPT ![w].pc = "idle", ![w].result = "error"]
    /\ UNCHANGED <<rate_limited, api_keys, current_index>>
    /\ UNCHANGED ext_frame

\* api_manager.py:70, 125  the loop ends after max_retries rotations
CallerGivesUp(w) ==
    /\ callers[w].pc = "loop"
    /\ callers[w].retries >= max_retries
    /\ callers' = [callers EXCEPT ![w].pc = "idle", ![w].result = "max_retries"]
    /\ UNCHANGED <<rate_limited, api_keys, current_index>>
    /\ UNCHANGED ext_frame

ExtNext ==
    \/ \E w \in Workers : CallerBegins(w)
    \/ \E w \in Workers : CallerSends(w)
    \/ \E w \in Workers : CallerReturns(w)
    \/ \E w \in Workers : CallerRateLimited(w)
    \/ \E w \in Workers : CallerMarks(w)
    \/ \E w \in Workers : CallerFails(w)
    \/ \E w \in Workers : CallerGivesUp(w)

(***************************************************************************)
(* Resuming: main() finds a checkpoint, the user chooses to resume, the    *)
(* system is constructed with resume=True and execute_research is called   *)
(* with the checkpoint's prompt.                                           *)
(***************************************************************************)
\* main.py:546-553  what an interrupted run left: its plan and the number
\* of the step that saved last (0: saved after planning)
InterruptedRuns ==
    {[plan |-> plan, current_step |-> n] : plan \in Plans, n \in 0..MaxSteps}

NoCheckpoint == [plan |-> NoPlan, current_step |-> 0]

ResIdle ==
    /\ res_pc = "off"
    /\ resumed_from = NoCheckpoint
    /\ run_plan = NoPlan
    /\ executed_steps = {}

\* main.py:573-584  a checkpoint exists and the user answers y
ResInit ==
    /\ res_pc = "found"
    /\ resumed_from \in {c \in InterruptedRuns : c.current_step <= c.plan.steps}
    /\ run_plan = NoPlan
    /\ executed_steps = {}

\* main.py:557-565, 71  _load_checkpoint restores all_collected_facts and
\* scraped_urls only; research_plan = self._create_plan(user_prompt)
plan_of_resumed_run(saved, planned) == planned

\* main.py:97  for batch_idx, batch in enumerate(execution_batches, 1):
\* the steps the run executes, for a plan of n steps resumed at current_step
steps_to_run(n, current_step) == 1..n

\* main.py:611-612, 52-53, 69-86  ResearchSystem(resume=True), then
\* execute_research: the plan of the run, or the error text without a plan
ResumeRun ==
    /\ res_pc = "found"
    /\ \E planned \in Plans \cup {NoPlan} :
          LET plan == plan_of_resumed_run(resumed_from.plan, planned) IN
          /\ run_plan' = plan
          /\ res_pc' = IF plan = NoPlan THEN "failed" ELSE "executing"
    /\ UNCHANGED <<resumed_from, executed_steps>>
    /\ UNCHANGED res_frame

\* main.py:97-108  the next step of the run is executed
ResumedStep ==
    /\ res_pc = "executing"
    /\ LET todo == steps_to_run(run_plan.steps, resumed_from.current_step)
                       \ executed_steps IN
          /\ todo # {}
          /\ executed_steps' = executed_steps \cup
                 {CHOOSE n \in todo : \A m \in todo : n <= m}
    /\ UNCHANGED <<res_pc, resumed_from, run_plan>>
    /\ UNCHANGED res_frame

\* main.py:110-142  every step was executed: sanity check, report
ResumedRunEnds ==
    /\ res_pc = "executing"
    /\ steps_to_run(run_plan.steps, resumed_from.current_step) \subseteq executed_steps
    /\ res_pc' = "finished"
    /\ UNCHANGED <<resumed_from, run_plan, executed_steps>>
    /\ UNCHANGED res_frame

ResNext ==
    \/ ResumeRun
    \/ ResumedStep
    \/ ResumedRunEnds

(***************************************************************************)
(* Claims about the scheduler (SpecSched).                                 *)
(***************************************************************************)
Returned == sched_pc = "returned"

\* the places <<b, j>> of the returned batches that hold step st
PlacesOf(st) ==
    {bj \in UNION {{<<b, j>> : j \in 1..Len(batches[b])} : b \in 1..Len(batches)} :
        batches[bj[1]][bj[2]] = st}

\* C1: for every input step list the returned batches are all non-empty
\* and every input step occurs in exactly one batch exactly once (the
\* batches together hold as many steps as the input).
C1_BatchesPartitionSteps ==
    Returned =>
        /\ \A b \in 1..Len(batches) : batches[b] # <<>>
        /\ \A i \in 1..Len(steps) : Cardinality(PlacesOf(steps[i])) = 1
        /\ Len(Flatten(batches)) = Len(steps)

C1_Witness ==
    /\ Returned
    /\ Len(steps) = 3
    /\ Len(batches) = 2
    /\ Len(batches[1]) = 2

\* C2: for any plan with at least two steps, whatever positive step_number
\* values its steps carry (here: increasing along the plan), the step that
\* is last in the sequence is alone in its batch and that batch is the
\* final one.
NumbersIncrease(ss) ==
    \A i \in 1..(Len(ss) - 1) : ss[i].step_number < ss[i + 1].step_number

C2_LastStepOwnFinalBatch ==
    (Returned /\ Len(steps) >= 2 /\ NumbersIncrease(steps)) =>
        /\ batches # <<>>
        /\ batches[Len(batches)] = <<steps[Len(steps)]>>

\* C3: a plan numbered 1..k+m, made of k >= 1 steps without a dependency
\* marker followed by m >= 1 dependent steps (with a marker, or the last
\* step), is scheduled as [[1..k],[k+1],...,[k+m]].
LeadingIndependent(k) ==
    /\ \A i \in 1..k : ~HasKeyword(steps[i])
    /\ \A i \in (k + 1)..Len(steps) : HasKeyword(steps[i]) \/ i = Len(steps)

C3_LeadingBatchThenSingletons ==
    (Returned /\ Canonical(steps)) =>
        \A k \in 1..(Len(steps) - 1) :
            LeadingIndependent(k) =>
                batches = <<SubSeq(steps, 1, k)>>
                          \o [j \in 1..(Len(steps) - k) |-> <<steps[k + j]>>]

\* [independent, independent, "based on steps 1 and 2"] gives [[1,2],[3]]
C3_Witness ==
    /\ Returned
    /\ Canonical(steps)
    /\ Len(steps) = 3
    /\ LeadingIndependent(2)
    /\ steps[3].action = "based on steps 1 and 2"
    /\ batches = <<<<steps[1], steps[2]>>, <<steps[3]>>>>

(***************************************************************************)
(* Claims about the place of independent and dependent steps (SpecSched).  *)
(***************************************************************************)
Dependent(i) == HasDependency(steps[i], Len(steps))

\* the steps at the places P, in plan order
StepsAt(P) ==
    LET AtP(st) == st.pos \in P IN SelectSeq(steps, AtP)

\* the number of leading independent steps
Leading ==
    CHOOSE k \in 0..Len(steps) :
        /\ \A i \in 1..k : ~Dependent(i)
        /\ k < Len(steps) => Dependent(k + 1)

\* the batch that holds the step at place i
BatchIndexOf(i) ==
    CHOOSE b \in 1..Len(batches) : \E j \in 1..Len(batches[b]) : batches[b][j].pos = i

\* C27 as stated, for a plan that starts with an independent step: the
\* first batch is exactly the leading independent steps, every dependent
\* step is alone in a later batch, and no step that follows a dependent
\* step is in a batch earlier than that step's batch.
C27_FirstBatchIsLeadingSteps ==
    (Returned /\ steps # <<>> /\ ~Dependent(1)) =>
        /\ batches[1] = SubSeq(steps, 1, Leading)
        /\ \A i \in 1..Len(steps) :
              Dependent(i) => batches[BatchIndexOf(i)] = <<steps[i]>>
        /\ \A i, j \in 1..Len(steps) :
              (i < j /\ Dependent(i)) => BatchIndexOf(j) >= BatchIndexOf(i)

FirstBatchPlaces == {i \in 1..Len(steps) : i = 1 \/ ~Dependent(i)}

LaterPlaces == {i \in 2..Len(steps) : Dependent(i)}

\* C27, amended: the first batch is the plan's first step together with
\* every later independent step, in plan order, and the dependent steps
\* after the first step are singleton batches in plan order.
C27_FirstBatchIsFirstAndIndependent ==
    (Returned /\ steps # <<>>) =>
        /\ batches[1] = StepsAt(FirstBatchPlaces)
        /\ SubSeq(batches, 2, Len(batches)) =
              [j \in 1..Cardinality(LaterPlaces) |-> <<StepsAt(LaterPlaces)[j]>>]

\* [independent, dependent, independent] with the last step not numbered 3
C27_Witness ==
    /\ Returned
    /\ Len(steps) = 3
    /\ ~Dependent(1) /\ Dependent(2) /\ ~Dependent(3)
    /\ batches = <<<<steps[1], steps[3]>>, <<steps[2]>>>>

(***************************************************************************)
(* Claims about the key pool (SpecPool).                                   *)
(***************************************************************************)
NonExhausted == {i \in DOMAIN api_keys : ~api_keys[i]}

\* C7: for a pool of N keys, none exhausted: after N-1 rate-limit signals
\* exactly one key is non-exhausted and it is the current key; the N-th
\* signal leaves all N keys marked exhausted and raises the exhaustion
\* error, and no earlier signal raises it.
C7_PoolExhaustsAfterNSignals ==
    /\ signals = NumKeys - 1 =>
          /\ NonExhausted = {current_index}
          /\ ~mark_raised
    /\ signals = NumKeys =>
          /\ NonExhausted = {}
          /\ mark_raised
    /\ signals < NumKeys => ~mark_raised

C7_Witness ==
    /\ NumKeys = 3
    /\ signals = 3
    /\ mark_raised
    /\ call_result = "all_exhausted"

(***************************************************************************)
(* Claims about the step loop (SpecStep).                                  *)
(***************************************************************************)
\* C5: whatever the evaluations, search results and failures, one call of
\* _execute_step runs its search/fetch/evaluate loop at most 3 times.
C5_AtMostThreeIterations ==
    /\ runs <= max_iterations_per_step
    /\ iteration <= max_iterations_per_step
    /\ Len(quality_scores) <= max_iterations_per_step

C5_Witness ==
    /\ step_pc = "done"
    /\ runs = 3
    /\ ~quality_met

\* the search/fetch phase of iteration k has been run
Ran(k) == runs >= k

LowGain(k) == quality_scores[k] - quality_scores[k - 1] < diminishing_returns

\* C6 as stated: for every iteration k >= 2, if the score recorded for k
\* minus the score recorded for k-1 is below 0.05, no iteration k+1 is run.
C6_HaltsOnLowGain ==
    \A k \in 2..Len(quality_scores) : LowGain(k) => ~Ran(k + 1)

\* C6 amended: the same for every iteration k >= 2 whose score comes from
\* the evaluation (the step has at least one fact when iteration k ends):
\* the loop halts at iteration k, the iteration counter never passes k.
C6_HaltsOnLowGainWhenEvaluated ==
    \A k \in 2..Len(quality_scores) :
        (evaluated[k] /\ LowGain(k)) => (iteration <= k /\ ~Ran(k + 1))

C6_Witness ==
    /\ step_pc = "done"
    /\ iteration = 2
    /\ Len(quality_scores) = 2
    /\ evaluated[2]
    /\ LowGain(2)
    /\ ~last_evaluation.threshold_met
    /\ last_evaluation.missing_aspects # <<>>

(***************************************************************************)
(* Claims about the batch loop (SpecBatch).                                *)
(***************************************************************************)
HasStarted(p) == step_state[p] # "pending"

\* C4: batches run strictly one after the other: whenever a step of a
\* later batch has started (been called, or submitted to its pool), every
\* step of every earlier batch has returned or raised; for batches of one
\* step and of several steps alike.
C4_BatchesSequential ==
    sched_pc = "returned" =>
        \A p \in Positions : \A q \in Positions :
            (BatchOf(p) < BatchOf(q) /\ HasStarted(q)) => Finished(p)

\* a batch of two steps, one returned and one raised, is over and the
\* step of the next batch runs
C4_Witness ==
    /\ sched_pc = "returned"
    /\ Len(batches) = 2
    /\ Len(batches[1]) = 2
    /\ batch_idx = 2
    /\ step_state[batches[1][1].pos] = "raised"
    /\ step_state[batches[1][2].pos] = "returned"
    /\ step_state[batches[2][1].pos] = "running"

(***************************************************************************)
(* Claims about the checkpoint store (SpecCkpt).                           *)
(***************************************************************************)
\* C10: whenever no save is in progress, load() returns the state saved
\* last (its fact list, element by element, its URLs as a set, its
\* current_step), and a system resumed from it holds exactly those
\* accumulators; load() returns nothing when nothing was saved or after
\* clear(), and the resumed system then starts empty.
C10_CheckpointRoundTrip ==
    NoSaveInProgress =>
        LET r == load(ckpt_file) IN
        /\ r.present = last_saved.present
        /\ r.present =>
              /\ restored_facts(r.data) = last_saved.facts
              /\ restored_urls(r.data) = last_saved.urls
              /\ Get(r.data, "current_step", 0) = last_saved.current_step
        /\ ckpt_op = "resume" =>
              /\ all_collected_facts = last_saved.facts
              /\ scraped_urls = last_saved.urls

(***************************************************************************)
(* Claims about the atomicity of a save (SpecCkpt).                        *)
(***************************************************************************)
\* C19: a save is atomic: whatever saves overlap and wherever a save
\* stops, the checkpoint file on disk is the complete state written by
\* one save, so a load of it never fails on a partial or mixed text.
C19_SaveIsAtomic ==
    ckpt_file.exists => load(ckpt_file).present

(***************************************************************************)
(* Claims about the scraped-URL guard (SpecUrls).                          *)
(***************************************************************************)
\* the _process_url calls submitted for URL u, over all query workers
SubmittedFor(u) ==
    {wi \in UNION {{<<w, i>> : i \in 1..Len(tasks[w])} : w \in Workers} :
        tasks[wi[1]][wi[2]].url = u}

InCriticalSection == {w \in Workers : qw[w].pc \in {"check", "decide"}}

RECURSIVE SumIdx(_)
SumIdx(ws) ==
    IF ws = {} THEN 0
    ELSE LET w == CHOOSE w \in ws : TRUE IN qw[w].idx + SumIdx(ws \ {w})

\* C8: under every interleaving of the query workers and URL tasks, a URL
\* is submitted to _process_url at most once; test and insert on
\* scraped_urls happen inside one critical section (one worker at a time,
\* the holder of urls_lock), a submitted URL is in scraped_urls, and every
\* result whose URL was found present was skipped and counted as a skip
\* (results taken = skips + submissions + those still being decided).
C8_UrlSubmittedAtMostOnce ==
    sys_pc = "executing" =>
        /\ \A u \in Urls : Cardinality(SubmittedFor(u)) <= 1
        /\ \A u \in Urls : SubmittedFor(u) # {} => u \in scraped_urls
        /\ Cardinality(InCriticalSection) <= 1
        /\ \A w \in InCriticalSection : urls_lock = w
        /\ SumIdx(Workers) =
              skips + Cardinality(UNION {SubmittedFor(u) : u \in Urls})
              + Cardinality({w \in Workers : qw[w].pc \in {"check", "decide", "submit"}})

\* two workers got the same URL: one submitted it, the other skipped it
C8_Witness ==
    /\ \A w \in Workers : qw[w].pc = "done"
    /\ qw[1].url = "u1" /\ qw[2].url = "u1"
    /\ qw[1].n = 1 /\ qw[2].n = 1
    /\ Cardinality(SubmittedFor("u1")) = 1
    /\ skips = 1
    /\ ~resume

IsPrefix(xs, ys) == Len(xs) <= Len(ys) /\ SubSeq(ys, 1, Len(xs)) = xs

NothingIssued ==
    /\ \A w \in Workers : qw[w].pc = "idle" /\ tasks[w] = <<>>
    /\ \A u \in Urls : fetched[u] = 0

\* C9: a run resumed from a checkpoint restores the fact list and the
\* scraped-URL set before any search or fetch is issued, and afterwards
\* no URL of the restored set is submitted, fetched or extracted.
C9_ResumeRestoresBeforeFetching ==
    LET r == load(ckpt_file) IN
    (resume /\ r.present) =>
        /\ sys_pc = "construct" => NothingIssued
        /\ sys_pc = "executing" =>
              /\ IsPrefix(last_saved.facts, all_collected_facts)
              /\ last_saved.urls \subseteq scraped_urls
              /\ \A u \in last_saved.urls :
                    fetched[u] = 0 /\ SubmittedFor(u) = {}

\* resumed with u1 restored: a query that returned u1 and u2 skipped u1
\* and fetched u2
C9_Witness ==
    /\ resume
    /\ last_saved.present
    /\ last_saved.urls = {"u1"}
    /\ sys_pc = "executing"
    /\ qw[1].pc = "done"
    /\ qw[1].n = 2
    /\ skips = 1
    /\ fetched["u2"] = 1
    /\ Len(all_collected_facts) = 2

(***************************************************************************)
(* Claims about single calls and exhausted keys (SpecPool).                *)
(***************************************************************************)
\* C17: a generate_content call whose requests keep receiving rate-limit
\* signals fails only when every key of the pool is exhausted, never
\* while a non-exhausted key remains (signals > 0: the keys have not been
\* reset since the call failed).
C17_FailsOnlyWhenAllExhausted ==
    (pool_pc = "idle" /\ signals > 0
     /\ call_result \in {"all_exhausted", "max_retries"}) =>
        NonExhausted = {}

\* C18: no request is sent with a key that is marked exhausted, also
\* after the pool has reported total exhaustion.
C18_ExhaustedKeyNeverUsed ==
    request.made => ~request.exhausted

(***************************************************************************)
(* Claims about failures inside steps (SpecBatch).                         *)
(***************************************************************************)
\* C12: once a plan exists, an exception raised inside a step never
\* escapes execute_research: the main thread never ends by a raise, and
\* when it returns every step of every batch has run to its end.
C12_StepFailureNeverEscapes ==
    /\ main_pc # "raised"
    /\ main_pc = "returned" => \A p \in Positions : Finished(p)

(***************************************************************************)
(* Claims about the end of the run (SpecFin).                              *)
(***************************************************************************)
\* C11: once execute_research has cleared the checkpoint after report
\* generation, and when it has returned the report, no checkpoint is on
\* disk: load() finds nothing, and nothing is saved after the clear.
C11_NoCheckpointAfterSuccess ==
    fin_pc \in {"summary", "returned"} =>
        /\ ~ckpt_file.exists
        /\ ~load(ckpt_file).present
        /\ report # None

\* the run saved its final checkpoint, generated the report and returned
C11_Witness ==
    /\ fin_pc = "returned"
    /\ report = "report"
    /\ ~ckpt_file.exists
    /\ Len(all_collected_facts) = 2

RescueCalledFor == ~judgment.result.pass /\ Truthy(judgment.result.rescue_query)

\* C15: once the batches are over the sufficiency judgment is invoked
\* exactly once; a rescue search is issued exactly when the judgment
\* returned pass=false with a rescue query, once, asking for 3 results;
\* at most 2 of its results are fetched and their facts are appended to
\* the shared list; there is no second judgment and no second search.
C15_OneJudgmentOneRescue ==
    /\ judgments = (IF fin_pc = "sanity" THEN 0 ELSE 1)
    /\ rescue_searches <= 1
    /\ rescue_searches = 1 => RescueCalledFor /\ rescue_requested = rescue_num_results
    /\ fin_pc \notin {"sanity", "rescue"} =>
          (rescue_searches = 1 <=> RescueCalledFor)
    /\ rescue_fetches <= 2
    /\ rescue_fetches <= Len(search_results)
    /\ fin_pc \in {"sanity", "rescue", "rescue_loop", "save"} =>
          /\ IsPrefix(last_saved.facts, all_collected_facts)
          /\ Len(all_collected_facts) - Len(last_saved.facts) <= rescue_fetches

\* a rescue search that returned 3 results: 2 fetched, both gave a fact
C15_Witness ==
    /\ fin_pc = "returned"
    /\ judgments = 1
    /\ rescue_searches = 1
    /\ Len(search_results) = 3
    /\ rescue_fetches = 2
    /\ all_collected_facts =
          <<FactOf(search_results[1]), FactOf(search_results[2])>>

\* C16: when the judgment call fails (generate_content raises or the
\* answer does not parse), the check yields pass=true with no rescue
\* query, no rescue search or fetch is made, and the run goes on to the
\* save and the report.
C16_JudgmentFailsOpen ==
    judgment.failed =>
        /\ judgment.result.pass
        /\ judgment.result.rescue_query = None
        /\ rescue_searches = 0
        /\ rescue_fetches = 0
        /\ fin_pc \in {"save", "report", "clear", "summary", "returned"}

\* the judgment failed and the run returned its report
C16_Witness ==
    /\ judgment.failed
    /\ judgments = 1
    /\ fin_pc = "returned"
    /\ report = "report"

C14_PutStoresOnlyCacheWorthy ==
    /\ cache_ret.op = "put" =>
          (cache_ret.changed =>
              should_cache(cache_ret.url) /\ cache_ret.content # "")
    /\ \A k \in DOMAIN cache_index : should_cache(cache_index[k].url)
    /\ \A k \in DOMAIN cache_files : cache_files[k] # ""

(***************************************************************************)
(* Claims about the shared structures of the URL workers (SpecProc).       *)
(***************************************************************************)
\* the workers that are inside _process_url
Running == {w \in Workers : pw[w].pc \notin {"idle", "done"}}

WritersOf(structure) == {r.worker : r \in {x \in writes : x.structure = structure}}

LockedStructures == {"all_collected_facts", "scraped_urls"}

\* C20: the fact list and the scraped-URL set are the only structures
\* written by more than one concurrent worker, each write to them made
\* under the lock; no other shared structure (cache index, hit and miss
\* counters, the step's source list) has been written by two workers that
\* are running at the same time.
C20_OnlyLockedStructuresShared ==
    /\ \A r \in writes : r.structure \in LockedStructures => r.locked
    /\ \A r \in writes : r.structure \notin LockedStructures =>
          Cardinality(WritersOf(r.structure) \cap Running) <= 1

(***************************************************************************)
(* Claims about the fetch timeout (SpecScrape).                            *)
(***************************************************************************)
\* C21: a fetch is abandoned at its timeout: once future.result has timed
\* out, scrape_with_timeout returns absent and the URL task records the
\* failure, whether or not the fetch worker ever completes.
C21_FetchAbandonedAtTimeout ==
    timed_out ~> (sc_pc = "recorded" /\ outcome = "failure")

(***************************************************************************)
(* Claims about the search engine's fallback (SpecSearch).                 *)
(***************************************************************************)
\* C22: the engine uses the secondary provider only after every primary
\* key has been marked exhausted following a failed search made with that
\* key, also when several query workers call search at once.
C22_FallbackOnlyAfterAllKeysFailed ==
    using_tavily => \A k \in GoogleKeys : google_keys[k] /\ k \in failed_keys

(***************************************************************************)
(* Claims about the passes of the step loop (SpecStep).                    *)
(***************************************************************************)
Passes == 1..Len(passes)

\* after the pass numbered k the loop went on, unless the pass was that of
\* the last allowed iteration
WentOn(k) ==
    (k = Len(passes) /\ step_pc \in {"final", "done"}) =>
        (iteration > passes[k].iteration
         \/ passes[k].iteration = max_iterations_per_step)

FailedPass(k) == passes[k].response \in {"raises", "unparsable"}

\* C24: when the evaluation capability fails, the evaluation is the
\* conservative default (dimensions and overall score 0.5, threshold not
\* met, one generic missing aspect), and the loop applies its usual stop
\* checks to it without raising.
C24_FailedEvaluationIsDefault ==
    \A k \in Passes :
        FailedPass(k) =>
            /\ quality_scores[k] = default_score
            /\ step_pc # "raised"
            /\ k = Len(passes) =>
                  /\ last_evaluation.bound
                  /\ last_evaluation.overall_score = default_score
                  /\ \A d \in DimensionNames : last_evaluation.dimensions[d] = default_score
                  /\ ~last_evaluation.threshold_met
                  /\ Len(last_evaluation.missing_aspects) = 1
                  /\ ~quality_met
                  /\ (step_pc \in {"final", "done"} /\ iteration = passes[k].iteration) =>
                        \/ iteration = max_iterations_per_step
                        \/ iteration > 1 /\ Diminishing(quality_scores)

C24_Witness ==
    /\ Len(passes) = 1
    /\ FailedPass(1)
    /\ iteration = 2
    /\ step_pc = "queries"

\* C28: the facts handed to a step's evaluation and tested by its
\* zero-fact check are exactly the facts the step's own queries have
\* extracted so far, also while sibling steps append to the shared list.
C28_StepFactsAreOwnFacts ==
    \A k \in Passes : step_facts(passes[k].own, passes[k].sibling) = passes[k].own

\* C29: within one step no query string is executed more than once.
C29_NoQueryRunTwice ==
    \A i, j \in DOMAIN all_queries_tried :
        i # j => all_queries_tried[i] # all_queries_tried[j]

C25_ExecutedPlanIsApprovedPlan ==
    (api_pc \in {"executing", "completed"} /\ steps_run > 0) =>
        executed_plan = request_plan

(***************************************************************************)
(* Claims about the accumulators of a reused research system (SpecChat).   *)
(***************************************************************************)
\* C26: at the start of every execute_research call on an instance built
\* without resume the fact accumulator and the scraped-URL set are empty,
\* a second call on the chatbot's instance included.
C26_AccumulatorsEmptyAtRunStart ==
    research_runs > 0 => run_start.facts = <<>> /\ run_start.urls = {}

(***************************************************************************)
(* Claims about the scheduler's termination (SpecSched).                   *)
(***************************************************************************)
\* C35: the scheduler terminates: every round of its while loop places at
\* least one step, so it makes at most N rounds for N steps, returns the
\* batches of those rounds and never takes the no-progress branch.
C35_EveryRoundPlacesAStep ==
    Returned =>
        LET r == create_execution_batches(steps) IN
        /\ ~r.fallback
        /\ r.rounds <= Len(steps)
        /\ r.rounds = Len(batches)
        /\ \A b \in 1..Len(batches) : batches[b] # <<>>
        /\ (steps # <<>> => steps[1] \in Range(batches[1]))

\* a plan of MaxSteps steps that all carry a dependency was scheduled
C35_Witness ==
    /\ Returned
    /\ Len(steps) = MaxSteps
    /\ \A i \in 1..Len(steps) : Dependent(i)
    /\ Len(batches) = MaxSteps

(***************************************************************************)
(* Claims about the worker pools of an iteration (SpecPar).                *)
(***************************************************************************)
\* C31: in one iteration at most 5 queries are executed, at most
\* min(query count, 3) of them at once; for each query at most 3 search
\* results are processed, by at most 3 URL workers at once.
C31_PoolsAreCapped ==
    /\ Len(query_tasks) <= 5
    /\ Len(query_tasks) <= Len(iter_queries)
    /\ Cardinality(RunningQueries) <= Min(Len(iter_queries), 3)
    /\ \A i \in DOMAIN query_tasks :
          /\ query_tasks[i].idx <= 3
          /\ query_tasks[i].waiting + query_tasks[i].running <= 3
          /\ query_tasks[i].running <= 3

\* six queries were given: three of the five submitted run at once, one of
\* them with three URL workers running, while the queries behind them wait
C31_Witness ==
    /\ Len(iter_queries) = 6
    /\ Cardinality(RunningQueries) = 3
    /\ \E i \in DOMAIN query_tasks : query_tasks[i].running = 3
    /\ \E i \in DOMAIN query_tasks : query_tasks[i].pc = "queued"

(***************************************************************************)
(* Claims about the cache around a fetch (SpecProc).                       *)
(***************************************************************************)
\* a URL task past its cache lookup: the lookup set the counter it counts
LookedUp(w) == pw[w].counter # ""

\* the task holds content that a live fetch returned
FetchedLive(w) ==
    /\ pw[w].pc \in {"sources", "extract", "lock", "extend", "unlock", "done"}
    /\ pw[w].content # ""
    /\ pw[w].counter # "hits"

\* C32: a URL is fetched live only after a cache lookup for it returned
\* nothing, and the content of a successful live fetch is written to the
\* cache under that URL.
C32_CacheAroundEveryFetch ==
    \A w \in Workers :
        /\ pw[w].pc = "scrape" => LookedUp(w) /\ pw[w].counter = "misses"
        /\ FetchedLive(w) => get_cache_key(pw[w].url) \in DOMAIN cache_index

(***************************************************************************)
(* Claims about the GPT manager's retries (SpecGpt).                       *)
(***************************************************************************)
\* C33: generate_content makes at most max_retries attempts per token, so
\* it never retries one token without bound while the provider keeps
\* answering with a rate limit.
C33_AtMostMaxRetriesPerToken ==
    \A t \in DOMAIN attempts : attempts[t] <= gpt_max_retries

(***************************************************************************)
(* Claims about the reads of the final aggregate (SpecBatch).              *)
(***************************************************************************)
\* a step thread or one of its query, URL or fetch workers is alive
AliveWorkers ==
    {p \in Positions : step_state[p] \in {"submitted", "running"}
                       \/ inner_workers[p] > 0}

\* C34: when the sufficiency check and the report generation read the fact
\* list (after the batch loop), no step, query, URL or fetch worker of the
\* run is still running.
C34_FinalReadsAfterAllJoined ==
    main_pc \in {"sanity", "returned"} => AliveWorkers = {}

\* the run reached the sufficiency check after a batch of two parallel
\* steps, one of which raised
C34_Witness ==
    /\ main_pc = "sanity"
    /\ \E b \in 1..Len(batches) : Len(batches[b]) >= 2
    /\ \E p \in Positions : step_state[p] = "raised"
    /\ \E p \in Positions : step_state[p] = "returned"

(***************************************************************************)
(* Claims about the steps a checkpoint lists (SpecBatch).                  *)
(***************************************************************************)
\* the step of the plan numbered n
StepNumbered(n) == CHOOSE p \in Positions : steps[p].step_number = n

\* C36: every checkpoint written during a run lists in completed_steps
\* only steps whose execution has finished successfully.
C36_CompletedStepsHaveFinished ==
    \A k \in 1..Len(completed_steps) :
        step_state[StepNumbered(completed_steps[k])] = "returned"

(***************************************************************************)
(* Claims about the key pool under concurrent callers (SpecExt).           *)
(***************************************************************************)
\* C37: under concurrent generate_content calls a key is marked exhausted
\* only if a request made with that key received a rate-limit signal, and
\* the all-keys-exhausted error is raised only when every key received one.
C37_MarkedOnlyAfterOwnSignal ==
    /\ \A k \in DOMAIN api_keys : api_keys[k] => k \in rate_limited
    /\ (\E w \in Workers : callers[w].result = "all_exhausted")
           => rate_limited = DOMAIN api_keys

(***************************************************************************)
(* Claims about the scraped-URL set and the rescue fetches (SpecFin).      *)
(***************************************************************************)
\* the URLs the rescue loop has fetched so far, in order
RescueFetched == SubSeq(Top(search_results), 1, rescue_fetches)

\* C38: a URL that is in the scraped-URL set, whatever the outcome of its
\* fetch, is never fetched again by a later query of the run.
C38_ScrapedUrlNeverFetchedAgain ==
    \A k \in 1..Len(RescueFetched) : RescueFetched[k] \notin scraped_urls

\* C40: every URL fetched during a run, the rescue query's included, is in
\* the scraped-URL set, so no URL is fetched twice and the final checkpoint
\* lists every URL that was fetched.
C40_EveryFetchedUrlIsMarked ==
    /\ \A k \in 1..Len(RescueFetched) : RescueFetched[k] \in scraped_urls
    /\ \A j \in 1..Len(RescueFetched) : \A k \in 1..Len(RescueFetched) :
           RescueFetched[j] = RescueFetched[k] => j = k
    /\ (fin_pc \in {"report", "clear"} /\ last_saved.present) =>
           \A k \in 1..Len(RescueFetched) : RescueFetched[k] \in last_saved.urls

(***************************************************************************)
(* Claims about a resumed run (SpecRes).                                   *)
(***************************************************************************)
\* C39: a run resumed from a checkpoint executes the plan stored in the
\* checkpoint and does not execute again the steps up to current_step.
C39_ResumeContinuesAfterCurrentStep ==
    res_pc \in {"executing", "finished"} =>
        /\ run_plan = resumed_from.plan
        /\ \A n \in executed_steps : n > resumed_from.current_step

(***************************************************************************)
(* The specifications.                                                     *)
(***************************************************************************)
InitSched == SchedInit /\ PoolIdle /\ StepIdle /\ BatchIdle /\ CkptIdle /\ UrlsIdle
    /\ FinIdle /\ CacheIdle /\ ProcIdle /\ ScrapeIdle /\ SearchIdle /\ ApiIdle /\ ChatIdle /\ ParIdle /\ GptIdle /\ ExtIdle /\ ResIdle
SpecSched == InitSched /\ [][SchedNext]_vars

InitPool == PoolInit /\ SchedIdle /\ StepIdle /\ BatchIdle /\ CkptIdle /\ UrlsIdle
    /\ FinIdle /\ CacheIdle /\ ProcIdle /\ ScrapeIdle /\ SearchIdle /\ ApiIdle /\ ChatIdle /\ ParIdle /\ GptIdle /\ ExtIdle /\ ResIdle
SpecPool == InitPool /\ [][PoolNext]_vars

InitStep == StepInit /\ SchedIdle /\ PoolIdle /\ BatchIdle /\ CkptIdle /\ UrlsIdle
    /\ FinIdle /\ CacheIdle /\ ProcIdle /\ ScrapeIdle /\ SearchIdle /\ ApiIdle /\ ChatIdle /\ ParIdle /\ GptIdle /\ ExtIdle /\ ResIdle
SpecStep == InitStep /\ [][StepNext]_vars

InitBatch == BatchInit /\ SchedInit /\ PoolIdle /\ StepIdle /\ CkptIdle /\ UrlsIdle
    /\ FinIdle /\ CacheIdle /\ ProcIdle /\ ScrapeIdle /\ SearchIdle /\ ApiIdle /\ ChatIdle /\ ParIdle /\ GptIdle /\ ExtIdle /\ ResIdle
SpecBatch == InitBatch /\ [][BatchNext]_vars

InitCkpt == CkptInit /\ SchedIdle /\ PoolIdle /\ StepIdle /\ BatchIdle /\ UrlsIdle
    /\ FinIdle /\ CacheIdle /\ ProcIdle /\ ScrapeIdle /\ SearchIdle /\ ApiIdle /\ ChatIdle /\ ParIdle /\ GptIdle /\ ExtIdle /\ ResIdle
SpecCkpt == InitCkpt /\ [][CkptNext]_vars

InitUrls == SchedIdle /\ PoolIdle /\ StepIdle /\ BatchIdle /\ UrlsInit
    /\ FinIdle /\ CacheIdle /\ ProcIdle /\ ScrapeIdle /\ SearchIdle /\ ApiIdle /\ ChatIdle /\ ParIdle /\ GptIdle /\ ExtIdle /\ ResIdle
SpecUrls == InitUrls /\ [][UrlsNext]_vars

InitFin == SchedIdle /\ PoolIdle /\ StepIdle /\ BatchIdle /\ UrlsIdle /\ FinInit
    /\ CacheIdle /\ ProcIdle /\ ScrapeIdle /\ SearchIdle /\ ApiIdle /\ ChatIdle /\ ParIdle /\ GptIdle /\ ExtIdle /\ ResIdle
SpecFin == InitFin /\ [][FinNext]_vars

InitCache == SchedIdle /\ PoolIdle /\ StepIdle /\ BatchIdle /\ CkptIdle /\ UrlsIdle
    /\ FinIdle /\ CacheInit /\ ProcIdle /\ ScrapeIdle /\ SearchIdle /\ ApiIdle /\ ChatIdle /\ ParIdle /\ GptIdle /\ ExtIdle /\ ResIdle
SpecCache == InitCache /\ [][CacheNext]_vars

InitProc == SchedIdle /\ PoolIdle /\ StepIdle /\ BatchIdle /\ UrlsIdle /\ FinIdle
    /\ ProcInit /\ ScrapeIdle /\ SearchIdle /\ ApiIdle /\ ChatIdle /\ ParIdle /\ GptIdle /\ ExtIdle /\ ResIdle
SpecProc == InitProc /\ [][ProcNext]_vars

\* the caller's thread keeps running; the fetch worker may never finish
InitScrape == SchedIdle /\ PoolIdle /\ StepIdle /\ BatchIdle /\ CkptIdle /\ UrlsIdle
    /\ FinIdle /\ CacheIdle /\ ProcIdle /\ ScrapeInit /\ SearchIdle /\ ApiIdle /\ ChatIdle /\ ParIdle /\ GptIdle /\ ExtIdle /\ ResIdle
SpecScrape == InitScrape /\ [][ScrapeNext]_vars /\ WF_vars(CallerSteps)

InitSearch == SchedIdle /\ PoolIdle /\ StepIdle /\ BatchIdle /\ CkptIdle /\ UrlsIdle
    /\ FinIdle /\ CacheIdle /\ ProcIdle /\ ScrapeIdle /\ SearchInit /\ ApiIdle /\ ChatIdle /\ ParIdle /\ GptIdle /\ ExtIdle /\ ResIdle
SpecSearch == InitSearch /\ [][SearchNext]_vars

InitApi == SchedIdle /\ PoolIdle /\ StepIdle /\ BatchIdle /\ CkptIdle /\ UrlsIdle
    /\ FinIdle /\ CacheIdle /\ ProcIdle /\ ScrapeIdle /\ SearchIdle /\ ApiInit /\ ChatIdle /\ ParIdle /\ GptIdle /\ ExtIdle /\ ResIdle
SpecApi == InitApi /\ [][ApiNext]_vars

InitChat == SchedIdle /\ PoolIdle /\ StepIdle /\ BatchIdle /\ UrlsIdle /\ FinIdle
    /\ CacheIdle /\ ProcIdle /\ ScrapeIdle /\ SearchIdle /\ ApiIdle /\ ChatInit /\ ParIdle /\ GptIdle /\ ExtIdle /\ ResIdle
SpecChat == InitChat /\ [][ChatNext]_vars

InitPar == SchedIdle /\ PoolIdle /\ StepIdle /\ BatchIdle /\ CkptIdle /\ UrlsIdle
    /\ FinIdle /\ CacheIdle /\ ProcIdle /\ ScrapeIdle /\ SearchIdle /\ ApiIdle
    /\ ChatIdle /\ ParInit /\ GptIdle /\ ExtIdle /\ ResIdle
SpecPar == InitPar /\ [][ParNext]_vars

InitGpt == SchedIdle /\ PoolIdle /\ StepIdle /\ BatchIdle /\ CkptIdle /\ UrlsIdle
    /\ FinIdle /\ CacheIdle /\ ProcIdle /\ ScrapeIdle /\ SearchIdle /\ ApiIdle
    /\ ChatIdle /\ ParIdle /\ GptInit /\ ExtIdle /\ ResIdle
SpecGpt == InitGpt /\ [][GptNext]_vars

InitExt == SchedIdle /\ StepIdle /\ BatchIdle /\ CkptIdle /\ UrlsIdle /\ FinIdle
    /\ CacheIdle /\ ProcIdle /\ ScrapeIdle /\ SearchIdle /\ ApiIdle /\ ChatIdle
    /\ ParIdle /\ GptIdle /\ ExtInit /\ ResIdle
SpecExt == InitExt /\ [][ExtNext]_vars

InitRes == SchedIdle /\ PoolIdle /\ StepIdle /\ BatchIdle /\ CkptIdle /\ UrlsIdle
    /\ FinIdle /\ CacheIdle /\ ProcIdle /\ ScrapeIdle /\ SearchIdle /\ ApiIdle
    /\ ChatIdle /\ ParIdle /\ GptIdle /\ ExtIdle /\ ResInit
SpecRes == InitRes /\ [][ResNext]_vars

====
